---------------------------- MODULE Spec2Model ----------------------------
(***************************************************************************)
(* Streaming executor of OpenBR (openbr/openbr.h, the stream plugin):      *)
(* SingleBuffer, DoubleBuffer, DataSource and its frame pool, the          *)
(* processing stages and StreamTransform::projectUpdate.                   *)
(***************************************************************************)
EXTENDS Integers, Sequences, FiniteSets, TLC

(***************************************************************************)
(* Bounds of the model.                                                    *)
(***************************************************************************)
\* largest number of items the producer of the buffer harness pushes
MaxItems == 3

\* largest number of transforms (processing stages) of a StreamTransform
MaxStages == 1

\* largest number of FrameData objects of the frame pool
MaxPool == 2

\* largest number of frames (or matrices) an input holds
MaxSrc == 2

\* longest text given to Transform::make, in characters
MaxText == 7

\* largest number of matrices of a template, and of clones of an Independent
MaxChannels == 3

\* a FrameData pointer that is NULL
NULL == 0

(***************************************************************************)
(* QWaitCondition: the set of threads asleep in wait().                    *)
(***************************************************************************)
\* wakeOne(): one sleeping thread, if any, leaves the wait set
WakeOne(waiters) ==
    IF waiters = {} THEN {waiters} ELSE {waiters \ {w} : w \in waiters}

\* wakeAll(): every sleeping thread leaves the wait set
WakeAll(waiters) == {}

(***************************************************************************)
(* SingleBuffer: one list, every access under the mutex bufferGuard.  A    *)
(* body that runs under the mutex without waiting is one atomic step.      *)
(***************************************************************************)
SB_New == [buffer |-> <<>>, no_input |-> FALSE, waiters |-> {}]

SB_stoppedInput(b) == [b EXCEPT !.no_input = TRUE, !.waiters = WakeAll(@)]

SB_startInput(b) == [b EXCEPT !.no_input = FALSE]

\* getItem that returns NULL on an empty buffer without looking at no_input
SB_getItemNoWait(b, t) ==
    IF b.buffer = <<>>
    THEN <<b, NULL, FALSE>>
    ELSE <<[b EXCEPT !.buffer = Tail(@)], Head(b.buffer), FALSE>>

\* the buffers addItem may leave (one per thread wakeOne may pick)
SB_addItem(b, input) ==
    {[b EXCEPT !.buffer = Append(@, input), !.waiters = w] : w \in WakeOne(b.waiters)}

\* getItem up to its return or its wait: <<buffer, result, blocked>>
SB_getItem(b, t) ==
    IF b.buffer = <<>>
    THEN IF b.no_input
         THEN <<b, NULL, FALSE>>
         ELSE <<[b EXCEPT !.waiters = @ \cup {t}], NULL, TRUE>>
    ELSE <<[b EXCEPT !.buffer = Tail(@)], Head(b.buffer), FALSE>>

\* getItem after availableInput.wait returned: <<buffer, result>>
SB_getItemWoken(b) ==
    IF b.buffer = <<>>
    THEN <<b, NULL>>
    ELSE <<[b EXCEPT !.buffer = Tail(@)], Head(b.buffer)>>

(***************************************************************************)
(* DoubleBuffer: two lists and the pointers inputBuffer / outputBuffer     *)
(* (1 names buffer1, 2 names buffer2), a read/write lock and a wait        *)
(* condition.  readers is the set of threads holding the read lock; a body *)
(* under the write lock excludes every other thread and is one atomic      *)
(* step, enabled when the lock is free.                                    *)
(***************************************************************************)
\* the constructor leaves no_input unset: ni is whatever the memory holds
DB_New(ni) ==
    [buffer1 |-> <<>>, buffer2 |-> <<>>, inputBuffer |-> 1, outputBuffer |-> 2,
     no_input |-> ni, readers |-> {}, waiters |-> {}]

DB_List(b, p) == IF p = 1 THEN b.buffer1 ELSE b.buffer2

DB_SetList(b, p, l) ==
    IF p = 1 THEN [b EXCEPT !.buffer1 = l] ELSE [b EXCEPT !.buffer2 = l]

\* every item the buffer holds, output list first
DB_Items(b) == DB_List(b, b.outputBuffer) \o DB_List(b, b.inputBuffer)

DB_CanLockForWrite(b) == b.readers = {}

DB_lockForRead(b, t) == [b EXCEPT !.readers = @ \cup {t}]

DB_unlock(b, t) == [b EXCEPT !.readers = @ \ {t}]

\* stoppedInput that sets no_input and wakes nobody
DB_stoppedInputNoWake(b) == [b EXCEPT !.no_input = TRUE]

DB_stoppedInput(b) == [b EXCEPT !.no_input = TRUE, !.waiters = WakeAll(@)]

DB_startInput(b) == [b EXCEPT !.no_input = FALSE]

\* addItem that puts the item in front of the list
DB_addItemFront(b, t, input, racing) ==
    {DB_unlock(DB_SetList([b EXCEPT !.waiters = w], b.inputBuffer,
                          <<input>> \o DB_List(b, b.inputBuffer)), t) :
        w \in WakeOne(b.waiters)}

\* addItem that appends and wakes nobody
DB_addItemNoWake(b, t, input, racing) ==
    {DB_unlock(DB_SetList(b, b.inputBuffer, Append(DB_List(b, b.inputBuffer), input)), t)}

\* addItem under the read lock: append, wakeOne, unlock.  racing says that
\* another thread is appending to the same list under its own read lock: the
\* two unsynchronised appends may then lose this item.
DB_addItem(b, t, input, racing) ==
    {DB_unlock(DB_SetList([b EXCEPT !.waiters = w], b.inputBuffer, l), t) :
        w \in WakeOne(b.waiters),
        l \in {Append(DB_List(b, b.inputBuffer), input)}
              \cup (IF racing THEN {DB_List(b, b.inputBuffer)} ELSE {})}

\* getItem under the read lock: <<buffer, result, found>>
DB_getItemRead(b, t) ==
    LET out == DB_List(b, b.outputBuffer) IN
    IF out # <<>>
    THEN <<DB_unlock(DB_SetList(b, b.outputBuffer, Tail(out)), t), Head(out), TRUE>>
    ELSE <<DB_unlock(b, t), NULL, FALSE>>

\* swap the two pointers and take the first item of the new output list; the
\* first item of an empty list is undefined: any value may come back
DB_swapAndTake(b) ==
    LET s == [b EXCEPT !.inputBuffer = b.outputBuffer, !.outputBuffer = b.inputBuffer]
        out == DB_List(s, s.outputBuffer)
    IN IF out # <<>>
       THEN {<<DB_SetList(s, s.outputBuffer, Tail(out)), Head(out)>>}
       ELSE {<<s, v>> : v \in {NULL, -1}}

\* getItem that returns NULL on an empty input list instead of waiting
DB_getItemWriteNoWait(b, t) ==
    IF DB_List(b, b.inputBuffer) = <<>>
    THEN {<<b, NULL, FALSE>>}
    ELSE {<<r[1], r[2], FALSE>> : r \in DB_swapAndTake(b)}

\* getItem under the write lock, up to its return or its wait:
\* the set of <<buffer, result, blocked>>
DB_getItemWrite(b, t) ==
    IF DB_List(b, b.inputBuffer) = <<>>
    THEN IF b.no_input
         THEN {<<b, NULL, FALSE>>}
         ELSE {<<[b EXCEPT !.waiters = @ \cup {t}], NULL, TRUE>>}
    ELSE {<<r[1], r[2], FALSE>> : r \in DB_swapAndTake(b)}

\* getItem that, woken with no_input set, returns NULL whatever the input
\* list holds
DB_getItemWokenNoCheck(b) ==
    IF b.no_input
    THEN {<<b, NULL>>}
    ELSE DB_swapAndTake(b)

\* getItem that swaps after its wait whatever the input list holds
DB_getItemWokenSwap(b) == DB_swapAndTake(b)

\* getItem after availableInput.wait returned, the write lock held again
DB_getItemWoken(b) ==
    IF b.no_input /\ DB_List(b, b.inputBuffer) = <<>>
    THEN {<<b, NULL>>}
    ELSE DB_swapAndTake(b)

(***************************************************************************)
(* State.  The first group is one buffer driven by one producer thread and *)
(* one consumer thread; the second group is a StreamTransform.             *)
(***************************************************************************)
VARIABLES
    kind,        \* the Buffer implementation under the two threads
    single,      \* the SingleBuffer
    double,      \* the DoubleBuffer
    tpc,         \* where the producer and the consumer thread are
    toPush,      \* the number of items the producer pushes
    pushed,      \* the number of addItem calls made
    received,    \* the items getItem returned to the consumer, in order
    ends,        \* the number of times getItem returned NULL
    nStages,         \* transforms.size()
    throwsAt,        \* <<stage, sequence number>>: where a transform's project throws
    inputs,          \* the inputs a caller may pass to projectUpdate
    runsLeft,        \* the projectUpdate calls the caller still makes
    allFrames,       \* DataSource::allFrames, the pool of free FrameData
    sharedBuffers,   \* StreamTransform::sharedBuffers
    frames,          \* the FrameData objects: sequenceNumber and data
    source,          \* readStage.dataSource: the DataSourceManager and its actualSource
    pc,              \* where each thread is: 0 the caller, s the thread in stage s
    cur,             \* the FrameData pointer each stage's run() holds
    stopped,         \* ProcessingStage::stopped of the stage with each stage_id
    inRun,           \* number of threads inside run() of each stage
    collectedOutput, \* LastStage::collectedOutput
    dst,             \* the output list of the last projectUpdate call
    mainI,           \* the loop counter i of projectUpdate
    emitted,         \* frames getFrame has returned in this run
    started,         \* whether this run has started its stages
    threadPool,      \* processingThreads: maxThreadCount, active threads, queue
    fn,              \* the function of openbr_plugin.cpp a caller is in
    arg,             \* its arguments
    ret,             \* its result, as far as it is built
    lpc,             \* where the caller is in it
    li,              \* its loop counter
    futures,         \* the tasks given to QtConcurrent::run: "running" or "finished"
    parallelism      \* Globals->parallelism

bvars == <<kind, single, double, tpc, toPush, pushed, received, ends>>

cfgvars == <<nStages, throwsAt, inputs>>

svars == <<runsLeft, allFrames, sharedBuffers, frames, source, pc, cur, stopped,
           inRun, collectedOutput, dst, mainI, emitted, started, threadPool>>

pvars == <<fn, arg, ret, lpc, li, futures, parallelism>>

vars == <<bvars, cfgvars, svars, pvars>>

Producer == "producer"
Consumer == "consumer"

(***************************************************************************)
(* One producer, one consumer.  As in StreamTransform::projectUpdate, the  *)
(* producing side calls startInput before the consumer thread is started,  *)
(* pushes its items and then calls stoppedInput; the consumer loops on     *)
(* getItem until it returns NULL, as ProcessingStage::run does.            *)
(***************************************************************************)
BufInit ==
    /\ kind \in {"SingleBuffer", "DoubleBuffer"}
    /\ single = SB_New
    /\ double \in {DB_New(ni) : ni \in BOOLEAN}
    /\ tpc = [t \in {Producer, Consumer} |-> "start"]
    /\ toPush \in 0..MaxItems
    /\ pushed = 0
    /\ received = <<>>
    /\ ends = 0

\* the consumer takes the result of a getItem call
Deliver(item) ==
    IF item = NULL
    THEN /\ ends' = ends + 1
         /\ received' = received
         /\ tpc' = [tpc EXCEPT ![Consumer] = "done"]
    ELSE /\ ends' = ends
         /\ received' = Append(received, item)
         /\ tpc' = [tpc EXCEPT ![Consumer] = "get"]

BStartInput ==
    /\ tpc[Producer] = "start"
    /\ IF kind = "SingleBuffer"
       THEN single' = SB_startInput(single) /\ double' = double
       ELSE /\ DB_CanLockForWrite(double)
            /\ double' = DB_startInput(double) /\ single' = single
    /\ tpc' = [t \in {Producer, Consumer} |-> IF t = Producer THEN "add" ELSE "get"]
    /\ UNCHANGED <<kind, toPush, pushed, received, ends>>
    /\ UNCHANGED <<cfgvars, svars, pvars>>

\* SingleBuffer::addItem
BSingleAdd ==
    /\ kind = "SingleBuffer" /\ tpc[Producer] = "add" /\ pushed < toPush
    /\ single' \in SB_addItem(single, pushed + 1)
    /\ pushed' = pushed + 1
    /\ UNCHANGED <<kind, double, tpc, toPush, received, ends>>
    /\ UNCHANGED <<cfgvars, svars, pvars>>

\* DoubleBuffer::addItem, taking the read lock
BDoubleAddLock ==
    /\ kind = "DoubleBuffer" /\ tpc[Producer] = "add" /\ pushed < toPush
    /\ double' = DB_lockForRead(double, Producer)
    /\ tpc' = [tpc EXCEPT ![Producer] = "add_locked"]
    /\ UNCHANGED <<kind, single, toPush, pushed, received, ends>>
    /\ UNCHANGED <<cfgvars, svars, pvars>>

\* DoubleBuffer::addItem, the body under the read lock
BDoubleAdd ==
    /\ tpc[Producer] = "add_locked"
    /\ double' \in DB_addItem(double, Producer, pushed + 1, FALSE)
    /\ pushed' = pushed + 1
    /\ tpc' = [tpc EXCEPT ![Producer] = "add"]
    /\ UNCHANGED <<kind, single, toPush, received, ends>>
    /\ UNCHANGED <<cfgvars, svars, pvars>>

BStoppedInput ==
    /\ tpc[Producer] = "add" /\ pushed = toPush
    /\ IF kind = "SingleBuffer"
       THEN single' = SB_stoppedInput(single) /\ double' = double
       ELSE /\ DB_CanLockForWrite(double)
            /\ double' = DB_stoppedInput(double) /\ single' = single
    /\ tpc' = [tpc EXCEPT ![Producer] = "done"]
    /\ UNCHANGED <<kind, toPush, pushed, received, ends>>
    /\ UNCHANGED <<cfgvars, svars, pvars>>

\* SingleBuffer::getItem up to its return or its wait
BSingleGet ==
    /\ kind = "SingleBuffer" /\ tpc[Consumer] = "get"
    /\ LET r == SB_getItem(single, Consumer) IN
         /\ single' = r[1]
         /\ IF r[3]
            THEN /\ tpc' = [tpc EXCEPT ![Consumer] = "wait"]
                 /\ UNCHANGED <<received, ends>>
            ELSE Deliver(r[2])
    /\ UNCHANGED <<kind, double, toPush, pushed>>
    /\ UNCHANGED <<cfgvars, svars, pvars>>

\* SingleBuffer::getItem from the return of wait, the mutex held again
BSingleWoken ==
    /\ kind = "SingleBuffer" /\ tpc[Consumer] = "wait"
    /\ Consumer \notin single.waiters
    /\ LET r == SB_getItemWoken(single) IN
         /\ single' = r[1]
         /\ Deliver(r[2])
    /\ UNCHANGED <<kind, double, toPush, pushed>>
    /\ UNCHANGED <<cfgvars, svars, pvars>>

\* DoubleBuffer::getItem, taking the read lock
BDoubleGetLock ==
    /\ kind = "DoubleBuffer" /\ tpc[Consumer] = "get"
    /\ double' = DB_lockForRead(double, Consumer)
    /\ tpc' = [tpc EXCEPT ![Consumer] = "get_read"]
    /\ UNCHANGED <<kind, single, toPush, pushed, received, ends>>
    /\ UNCHANGED <<cfgvars, svars, pvars>>

\* DoubleBuffer::getItem, the body under the read lock
BDoubleGetRead ==
    /\ tpc[Consumer] = "get_read"
    /\ LET r == DB_getItemRead(double, Consumer) IN
         /\ double' = r[1]
         /\ IF r[3]
            THEN Deliver(r[2])
            ELSE /\ tpc' = [tpc EXCEPT ![Consumer] = "get_write"]
                 /\ UNCHANGED <<received, ends>>
    /\ UNCHANGED <<kind, single, toPush, pushed>>
    /\ UNCHANGED <<cfgvars, svars, pvars>>

\* DoubleBuffer::getItem, the body under the write lock
BDoubleGetWrite ==
    /\ tpc[Consumer] = "get_write"
    /\ DB_CanLockForWrite(double)
    /\ \E r \in DB_getItemWrite(double, Consumer) :
         /\ double' = r[1]
         /\ IF r[3]
            THEN /\ tpc' = [tpc EXCEPT ![Consumer] = "wait"]
                 /\ UNCHANGED <<received, ends>>
            ELSE Deliver(r[2])
    /\ UNCHANGED <<kind, single, toPush, pushed>>
    /\ UNCHANGED <<cfgvars, svars, pvars>>

\* DoubleBuffer::getItem from the return of wait, the write lock held again
BDoubleWoken ==
    /\ kind = "DoubleBuffer" /\ tpc[Consumer] = "wait"
    /\ Consumer \notin double.waiters
    /\ DB_CanLockForWrite(double)
    /\ \E r \in DB_getItemWoken(double) :
         /\ double' = r[1]
         /\ Deliver(r[2])
    /\ UNCHANGED <<kind, single, toPush, pushed>>
    /\ UNCHANGED <<cfgvars, svars, pvars>>

ProducerStep == BStartInput \/ BSingleAdd \/ BDoubleAddLock \/ BDoubleAdd \/ BStoppedInput

ConsumerStep ==
    \/ BSingleGet \/ BSingleWoken
    \/ BDoubleGetLock \/ BDoubleGetRead \/ BDoubleGetWrite \/ BDoubleWoken

BufNext == ProducerStep \/ ConsumerStep

(***************************************************************************)
(* Templates, the data sources and the transforms of the stages.           *)
(***************************************************************************)
\* the thread that calls projectUpdate; it runs readStage (stage_id 0)
Main == 0

\* stage_id of collectionStage, and the thread running it
Coll == nStages + 1

Stages == 1..nStages

Workers == 1..Coll

\* what a caller may pass: a template with loaded matrices, a file no video
\* can be opened on, a video of size frames (possibly none)
Inputs(n) ==
    [kind : {"template"}, opens : {TRUE}, size : 1..n]
      \cup [kind : {"video"}, opens : {FALSE}, size : {0}]
      \cup [kind : {"video"}, opens : {TRUE}, size : 0..n]

\* Template::empty(): the template has no matrix
Empty(input) == input.kind = "video"

SourceClosed ==
    [actualSource |-> "NULL", isOpened |-> FALSE, size |-> 0, current_idx |-> 0,
     next_sequence |-> 0, file |-> 0]

\* VideoDataSource::open on the template named file
VideoOpen(input, file) ==
    [actualSource |-> "Video", isOpened |-> input.opens, size |-> input.size,
     current_idx |-> 0, next_sequence |-> 0, file |-> file]

\* open that leaves next_sequence as the last run left it
TemplateOpenNoReset(input, file) ==
    [actualSource |-> "Template", isOpened |-> FALSE, size |-> input.size,
     current_idx |-> 0, next_sequence |-> source.next_sequence, file |-> file]

\* TemplateDataSource::open
TemplateOpen(input, file) ==
    [actualSource |-> "Template", isOpened |-> FALSE, size |-> input.size,
     current_idx |-> 0, next_sequence |-> 0, file |-> file]

\* isOpen() of the manager and of the actual source
IsOpen(src) ==
    CASE src.actualSource = "NULL" -> FALSE
      [] src.actualSource = "Video" -> src.isOpened
      [] src.actualSource = "Template" -> src.current_idx < src.size

\* DataSourceManager::open: the source it leaves; IsOpen of it is the result
ManagerOpen(input, file) ==
    LET actual == IF Empty(input) THEN VideoOpen(input, file)
                  ELSE TemplateOpen(input, file)
    IN IF IsOpen(actual) THEN actual ELSE SourceClosed

\* a template: the input it was cut from, the index of its matrix there, the
\* number of matrices it holds, the FTE flag of its file, and the number of
\* transforms that projected it
NewTemplate(file, idx) == [file |-> file, idx |-> idx, mats |-> 1, FTE |-> FALSE, by |-> 0]

\* getNext of the actual source on a cleared frame: <<result, frame, source>>
GetNext(src) ==
    CASE src.actualSource = "Template" ->
           IF ~IsOpen(src)
           THEN <<FALSE, [sequenceNumber |-> -1, data |-> <<>>], src>>
           ELSE <<TRUE,
                  [sequenceNumber |-> src.next_sequence,
                   data |-> <<NewTemplate(src.file, src.current_idx)>>],
                  [src EXCEPT !.current_idx = @ + 1, !.next_sequence = @ + 1]>>
      [] src.actualSource = "Video" ->
           IF ~IsOpen(src)
           THEN <<FALSE, [sequenceNumber |-> -1, data |-> <<>>], src>>
           ELSE <<src.current_idx < src.size,
                  [sequenceNumber |-> src.next_sequence,
                   data |-> <<NewTemplate(src.file, src.current_idx)>>],
                  [src EXCEPT !.next_sequence = @ + 1,
                              !.current_idx = IF @ < src.size THEN @ + 1 ELSE @]>>

\* _project that sets the flag on what the failed project left in dst
ProjectOneKeepMats(t, throws) ==
    IF throws
    THEN [t EXCEPT !.FTE = TRUE]
    ELSE [t EXCEPT !.by = @ + 1]

\* _project that drops the matrices of a failed template and sets no flag
ProjectOneNoFlag(t, throws) ==
    IF throws
    THEN [t EXCEPT !.mats = 0]
    ELSE [t EXCEPT !.by = @ + 1]

\* _project: project of one template, an exception caught
ProjectOne(t, throws) ==
    IF throws
    THEN [t EXCEPT !.mats = 0, !.FTE = TRUE]
    ELSE [t EXCEPT !.by = @ + 1]

\* Transform::project(const TemplateList &, TemplateList &)
ProjectList(data, throws) == [i \in 1..Len(data) |-> ProjectOne(data[i], throws)]

\* Transform::projectUpdate(TemplateList &) of a transform that keeps no state
ProjectUpdate(data, throws) == ProjectList(data, throws)

\* a pool with one thread per transform and none for the collection stage
MaxThreadCountNoCollector(n) == n

\* StreamTransform::init: the size of the thread pool
MaxThreadCount(n) == n + 1

(***************************************************************************)
(* QThreadPool processingThreads.                                          *)
(***************************************************************************)
\* QThreadPool::start(stage): a free thread enters stage's run(), or the
\* stage is queued until a thread is free: <<pool, entered>>
PoolStart(tp, s) ==
    IF tp.active < tp.maxThreadCount
    THEN <<[tp EXCEPT !.active = @ + 1], TRUE>>
    ELSE <<[tp EXCEPT !.queue = Append(@, s)], FALSE>>

(***************************************************************************)
(* The state after construction: DataSource(maxFrames) has filled the pool *)
(* and called allFrames.startInput(); StreamTransform::init has linked     *)
(* nStages + 1 buffers, whose no_input is unset, and the stages, whose     *)
(* stopped is unset.                                                       *)
(***************************************************************************)
AllThreads == 0..Coll

PoolInit(n) ==
    [DB_New(FALSE) EXCEPT !.buffer1 = [i \in 1..n |-> i]]

StreamInit(stageCounts, poolSizes, ins, runs, throws, unset) ==
    /\ nStages \in stageCounts
    /\ throwsAt \in throws
    /\ inputs = ins
    /\ runsLeft = runs
    /\ allFrames \in {PoolInit(n) : n \in poolSizes}
    /\ sharedBuffers \in [0..nStages -> {DB_New(ni) : ni \in unset}]
    /\ frames = [f \in 1..Len(allFrames.buffer1) |-> [sequenceNumber |-> -1, data |-> <<>>]]
    /\ source = SourceClosed
    /\ pc = [t \in AllThreads |-> "idle"]
    /\ cur = [t \in AllThreads |-> NULL]
    /\ stopped \in [AllThreads -> unset]
    /\ ~stopped[Main]
    /\ inRun = [t \in AllThreads |-> 0]
    /\ collectedOutput = <<>>
    /\ dst = <<>>
    /\ mainI = 0
    /\ emitted = 0
    /\ started = FALSE
    /\ threadPool = [maxThreadCount |-> MaxThreadCount(nStages), active |-> 0,
                     exiting |-> 0, queue |-> <<>>]

\* the buffer harness at rest
BufIdle ==
    /\ kind = "DoubleBuffer"
    /\ single = SB_New
    /\ double = DB_New(FALSE)
    /\ tpc = [t \in {Producer, Consumer} |-> "done"]
    /\ toPush = 0
    /\ pushed = 0
    /\ received = <<>>
    /\ ends = 0

(***************************************************************************)
(* StreamTransform::projectUpdate, on the calling thread.                  *)
(***************************************************************************)
\* entry: dst = src, open the data source; return at once if that fails
ProjectUpdateOpen ==
    /\ pc[Main] = "idle" /\ runsLeft > 0
    /\ \E input \in inputs :
         LET opened == ManagerOpen(input, runsLeft) IN
           /\ source' = opened
           /\ dst' = <<[file |-> runsLeft, idx |-> 0, mats |-> IF Empty(input) THEN 0 ELSE input.size,
                        FTE |-> FALSE, by |-> 0]>>
           /\ pc' = [pc EXCEPT ![Main] = IF IsOpen(opened) THEN "startInput" ELSE "idle"]
    /\ runsLeft' = runsLeft - 1
    /\ emitted' = 0
    /\ started' = FALSE
    /\ UNCHANGED <<allFrames, sharedBuffers, frames, cur, stopped, inRun,
                   collectedOutput, mainI, threadPool>>
    /\ UNCHANGED <<bvars, cfgvars, pvars>>

\* "Tell all buffers to expect input"
StartInput ==
    /\ pc[Main] = "startInput"
    /\ \A i \in 0..nStages : DB_CanLockForWrite(sharedBuffers[i])
    /\ sharedBuffers' = [i \in 0..nStages |-> DB_startInput(sharedBuffers[i])]
    /\ pc' = [pc EXCEPT ![Main] = "start"]
    /\ mainI' = 1
    /\ UNCHANGED <<runsLeft, allFrames, frames, source, cur, stopped, inRun,
                   collectedOutput, dst, emitted, started, threadPool>>
    /\ UNCHANGED <<bvars, cfgvars, pvars>>

\* processingThreads.start of the next stage without markStart
StartStageNoMark ==
    /\ pc[Main] = "start"
    /\ LET s == mainI
           r == PoolStart(threadPool, s)
       IN /\ stopped' = stopped
          /\ threadPool' = r[1]
          /\ IF r[2]
             THEN /\ inRun' = [inRun EXCEPT ![s] = @ + 1]
                  /\ pc' = [pc EXCEPT ![s] = "get",
                                      ![Main] = IF s = Coll THEN "get" ELSE "start"]
             ELSE /\ inRun' = inRun
                  /\ pc' = [pc EXCEPT ![Main] = IF s = Coll THEN "get" ELSE "start"]
          /\ mainI' = s + 1
          /\ started' = TRUE
    /\ UNCHANGED <<runsLeft, allFrames, sharedBuffers, frames, source, cur,
                   collectedOutput, dst, emitted>>
    /\ UNCHANGED <<bvars, cfgvars, pvars>>

\* markStart and processingThreads.start of the next stage, the collection
\* stage last; then the caller runs readStage itself
StartStage ==
    /\ pc[Main] = "start"
    /\ LET s == mainI
           r == PoolStart(threadPool, s)
       IN /\ stopped' = [stopped EXCEPT ![s] = FALSE]
          /\ threadPool' = r[1]
          /\ IF r[2]
             THEN /\ inRun' = [inRun EXCEPT ![s] = @ + 1]
                  /\ pc' = [pc EXCEPT ![s] = "get",
                                      ![Main] = IF s = Coll THEN "get" ELSE "start"]
             ELSE /\ inRun' = inRun
                  /\ pc' = [pc EXCEPT ![Main] = IF s = Coll THEN "get" ELSE "start"]
          /\ mainI' = s + 1
          /\ started' = TRUE
    /\ UNCHANGED <<runsLeft, allFrames, sharedBuffers, frames, source, cur,
                   collectedOutput, dst, emitted>>
    /\ UNCHANGED <<bvars, cfgvars, pvars>>

(***************************************************************************)
(* FirstStage::run on the calling thread: DataSource::getFrame, then       *)
(* outputBuffer->addItem, until getFrame returns NULL.                     *)
(***************************************************************************)
\* getFrame from the return of allFrames.getItem(), which left the pool as
\* pool: clear the frame and call getNext; a frame goes on to
\* outputBuffer->addItem, a failed read back to allFrames.addItem (each up to
\* the read lock of that buffer)
GotFrame(aFrame, pool) ==
    IF aFrame \notin DOMAIN frames
    THEN \* aFrame->data through a pointer that is no frame
         /\ pc' = [pc EXCEPT ![Main] = "crashed"]
         /\ allFrames' = pool
         /\ UNCHANGED <<frames, source, cur, emitted, sharedBuffers>>
    ELSE LET r == GetNext(source) IN
         /\ frames' = [frames EXCEPT ![aFrame] = r[2]]
         /\ source' = r[3]
         /\ cur' = [cur EXCEPT ![Main] = aFrame]
         /\ IF r[1]
            THEN /\ emitted' = emitted + 1
                 /\ pc' = [pc EXCEPT ![Main] = "put"]
                 /\ sharedBuffers' = [sharedBuffers EXCEPT ![0] = DB_lockForRead(@, Main)]
                 /\ allFrames' = pool
            ELSE /\ emitted' = emitted
                 /\ pc' = [pc EXCEPT ![Main] = "unget"]
                 /\ allFrames' = DB_lockForRead(pool, Main)
                 /\ UNCHANGED sharedBuffers

\* allFrames.getItem(): take the read lock
GetFrameLock ==
    /\ pc[Main] = "get"
    /\ allFrames' = DB_lockForRead(allFrames, Main)
    /\ pc' = [pc EXCEPT ![Main] = "get_read"]
    /\ UNCHANGED <<runsLeft, sharedBuffers, frames, source, cur, stopped, inRun,
                   collectedOutput, dst, mainI, emitted, started, threadPool>>
    /\ UNCHANGED <<bvars, cfgvars, pvars>>

\* allFrames.getItem(): the body under the read lock
GetFrameRead ==
    /\ pc[Main] = "get_read"
    /\ LET r == DB_getItemRead(allFrames, Main) IN
         IF r[3]
         THEN GotFrame(r[2], r[1])
         ELSE /\ allFrames' = r[1]
              /\ pc' = [pc EXCEPT ![Main] = "get_write"]
              /\ UNCHANGED <<frames, source, cur, emitted, sharedBuffers>>
    /\ UNCHANGED <<runsLeft, stopped, inRun, collectedOutput, dst, mainI, started,
                   threadPool>>
    /\ UNCHANGED <<bvars, cfgvars, pvars>>

\* allFrames.getItem(): the body under the write lock, up to return or wait
GetFrameWrite ==
    /\ pc[Main] = "get_write"
    /\ DB_CanLockForWrite(allFrames)
    /\ \E r \in DB_getItemWrite(allFrames, Main) :
         IF r[3]
         THEN /\ allFrames' = r[1]
              /\ pc' = [pc EXCEPT ![Main] = "get_wait"]
              /\ UNCHANGED <<frames, source, cur, emitted, sharedBuffers>>
         ELSE GotFrame(r[2], r[1])
    /\ UNCHANGED <<runsLeft, stopped, inRun, collectedOutput, dst, mainI, started,
                   threadPool>>
    /\ UNCHANGED <<bvars, cfgvars, pvars>>

\* allFrames.getItem(): availableInput.wait returns, the write lock held again
GetFrameWoken ==
    /\ pc[Main] = "get_wait"
    /\ Main \notin allFrames.waiters
    /\ DB_CanLockForWrite(allFrames)
    /\ \E r \in DB_getItemWoken(allFrames) : GotFrame(r[2], r[1])
    /\ UNCHANGED <<runsLeft, stopped, inRun, collectedOutput, dst, mainI, started,
                   threadPool>>
    /\ UNCHANGED <<bvars, cfgvars, pvars>>

\* outputBuffer->addItem(aFrame): the body under the read lock
PutFrame ==
    /\ pc[Main] = "put"
    /\ sharedBuffers' \in {[sharedBuffers EXCEPT ![0] = b] :
                             b \in DB_addItem(sharedBuffers[0], Main, cur[Main], FALSE)}
    /\ cur' = [cur EXCEPT ![Main] = NULL]
    /\ pc' = [pc EXCEPT ![Main] = "get"]
    /\ UNCHANGED <<runsLeft, allFrames, frames, source, stopped, inRun,
                   collectedOutput, dst, mainI, emitted, started, threadPool>>
    /\ UNCHANGED <<bvars, cfgvars, pvars>>

\* getNext failed: allFrames.addItem(aFrame) under the read lock, which the
\* collector may hold too, in returnFrame; then getFrame returns NULL and
\* readStage marks itself stopped
UngetFrame ==
    /\ pc[Main] = "unget"
    /\ allFrames' \in DB_addItem(allFrames, Main, cur[Main],
                                 pc[Coll] = "return" /\ Coll \in allFrames.readers)
    /\ cur' = [cur EXCEPT ![Main] = NULL]
    /\ stopped' = [stopped EXCEPT ![Main] = TRUE]
    /\ pc' = [pc EXCEPT ![Main] = "drain"]
    /\ mainI' = 0
    /\ UNCHANGED <<runsLeft, sharedBuffers, frames, source, inRun,
                   collectedOutput, dst, emitted, started, threadPool>>
    /\ UNCHANGED <<bvars, cfgvars, pvars>>

(***************************************************************************)
(* projectUpdate after readStage.run(): stoppedInput on each buffer and    *)
(* waitStop on the stage that reads it, in order; then the output.         *)
(***************************************************************************)
\* stoppedInput() on every buffer from i on at once
StoppedInputAll ==
    /\ pc[Main] = "drain"
    /\ \A i \in mainI..nStages : DB_CanLockForWrite(sharedBuffers[i])
    /\ sharedBuffers' = [i \in 0..nStages |->
                           IF i >= mainI THEN DB_stoppedInput(sharedBuffers[i])
                           ELSE sharedBuffers[i]]
    /\ pc' = [pc EXCEPT ![Main] = "waitStop"]
    /\ UNCHANGED <<runsLeft, allFrames, frames, source, cur, stopped, inRun,
                   collectedOutput, dst, mainI, emitted, started, threadPool>>
    /\ UNCHANGED <<bvars, cfgvars, pvars>>

\* sharedBuffers[i]->stoppedInput()
StoppedInput ==
    /\ pc[Main] = "drain"
    /\ DB_CanLockForWrite(sharedBuffers[mainI])
    /\ sharedBuffers' = [sharedBuffers EXCEPT ![mainI] = DB_stoppedInput(@)]
    /\ pc' = [pc EXCEPT ![Main] = "waitStop"]
    /\ UNCHANGED <<runsLeft, allFrames, frames, source, cur, stopped, inRun,
                   collectedOutput, dst, mainI, emitted, started, threadPool>>
    /\ UNCHANGED <<bvars, cfgvars, pvars>>

\* waitStop that does not wait
WaitStopAtOnce(flag) == TRUE

\* ProcessingStage::waitStop: whether the caller may leave it
WaitStopReturns(flag) == flag

\* waitStop() of the stage reading sharedBuffers[i] returns; after the last
\* one, dst = collectionStage.getOutput() and projectUpdate returns
WaitStop ==
    /\ pc[Main] = "waitStop"
    /\ WaitStopReturns(stopped[mainI + 1])
    /\ IF mainI = nStages
       THEN /\ dst' = collectedOutput
            /\ pc' = [pc EXCEPT ![Main] = "idle"]
            /\ mainI' = mainI
       ELSE /\ dst' = dst
            /\ pc' = [pc EXCEPT ![Main] = "drain"]
            /\ mainI' = mainI + 1
    /\ UNCHANGED <<runsLeft, allFrames, sharedBuffers, frames, source, cur, stopped,
                   inRun, collectedOutput, emitted, started, threadPool>>
    /\ UNCHANGED <<bvars, cfgvars, pvars>>

(***************************************************************************)
(* ProcessingStage::run and LastStage::run on the pool's threads.  The     *)
(* stage with stage_id s reads sharedBuffers[s - 1]; a processing stage    *)
(* writes sharedBuffers[s], the collection stage returns to the pool.      *)
(***************************************************************************)
\* run() from the return of inputBuffer->getItem(), which left the buffer as
\* b: NULL ends the loop; a processing stage goes into transform->projectUpdate,
\* the collection stage to collectedOutput.append
GotItem(s, item, b) ==
    /\ sharedBuffers' = [sharedBuffers EXCEPT ![s - 1] = b]
    /\ cur' = [cur EXCEPT ![s] = item]
    /\ pc' = [pc EXCEPT ![s] = IF item = NULL THEN "stop"
                                ELSE IF s = Coll THEN "collect" ELSE "project"]

\* inputBuffer->getItem(): take the read lock
GetItemLock(s) ==
    /\ pc[s] = "get"
    /\ sharedBuffers' = [sharedBuffers EXCEPT ![s - 1] = DB_lockForRead(@, s)]
    /\ pc' = [pc EXCEPT ![s] = "get_read"]
    /\ UNCHANGED <<runsLeft, allFrames, frames, source, cur, stopped, inRun,
                   collectedOutput, dst, mainI, emitted, started, threadPool>>
    /\ UNCHANGED <<bvars, cfgvars, pvars>>

\* inputBuffer->getItem(): the body under the read lock
GetItemRead(s) ==
    /\ pc[s] = "get_read"
    /\ LET r == DB_getItemRead(sharedBuffers[s - 1], s) IN
         IF r[3]
         THEN GotItem(s, r[2], r[1])
         ELSE /\ sharedBuffers' = [sharedBuffers EXCEPT ![s - 1] = r[1]]
              /\ pc' = [pc EXCEPT ![s] = "get_write"]
              /\ cur' = cur
    /\ UNCHANGED <<runsLeft, allFrames, frames, source, stopped, inRun,
                   collectedOutput, dst, mainI, emitted, started, threadPool>>
    /\ UNCHANGED <<bvars, cfgvars, pvars>>

\* inputBuffer->getItem(): the body under the write lock, up to return or wait
GetItemWrite(s) ==
    /\ pc[s] = "get_write"
    /\ DB_CanLockForWrite(sharedBuffers[s - 1])
    /\ \E r \in DB_getItemWrite(sharedBuffers[s - 1], s) :
         IF r[3]
         THEN /\ sharedBuffers' = [sharedBuffers EXCEPT ![s - 1] = r[1]]
              /\ pc' = [pc EXCEPT ![s] = "get_wait"]
              /\ cur' = cur
         ELSE GotItem(s, r[2], r[1])
    /\ UNCHANGED <<runsLeft, allFrames, frames, source, stopped, inRun,
                   collectedOutput, dst, mainI, emitted, started, threadPool>>
    /\ UNCHANGED <<bvars, cfgvars, pvars>>

\* inputBuffer->getItem(): availableInput.wait returns, the write lock held
GetItemWoken(s) ==
    /\ pc[s] = "get_wait"
    /\ s \notin sharedBuffers[s - 1].waiters
    /\ DB_CanLockForWrite(sharedBuffers[s - 1])
    /\ \E r \in DB_getItemWoken(sharedBuffers[s - 1]) : GotItem(s, r[2], r[1])
    /\ UNCHANGED <<runsLeft, allFrames, frames, source, stopped, inRun,
                   collectedOutput, dst, mainI, emitted, started, threadPool>>
    /\ UNCHANGED <<bvars, cfgvars, pvars>>

\* transform->projectUpdate(currentItem->data) returns; outputBuffer->addItem
\* takes the read lock
Project(s) ==
    /\ pc[s] = "project" /\ s \in Stages
    /\ frames' = [frames EXCEPT ![cur[s]].data =
                    ProjectUpdate(@, <<s, frames[cur[s]].sequenceNumber>> \in throwsAt)]
    /\ sharedBuffers' = [sharedBuffers EXCEPT ![s] = DB_lockForRead(@, s)]
    /\ pc' = [pc EXCEPT ![s] = "add"]
    /\ UNCHANGED <<runsLeft, allFrames, source, cur, stopped, inRun,
                   collectedOutput, dst, mainI, emitted, started, threadPool>>
    /\ UNCHANGED <<bvars, cfgvars, pvars>>

\* outputBuffer->addItem(currentItem): the body under the read lock
AddItem(s) ==
    /\ pc[s] = "add"
    /\ sharedBuffers' \in {[sharedBuffers EXCEPT ![s] = b] :
                             b \in DB_addItem(sharedBuffers[s], s, cur[s], FALSE)}
    /\ cur' = [cur EXCEPT ![s] = NULL]
    /\ pc' = [pc EXCEPT ![s] = "get"]
    /\ UNCHANGED <<runsLeft, allFrames, frames, source, stopped, inRun,
                   collectedOutput, dst, mainI, emitted, started, threadPool>>
    /\ UNCHANGED <<bvars, cfgvars, pvars>>

\* LastStage::run: collectedOutput.append(frame->data); data->returnFrame
\* takes the read lock of the pool
Collect ==
    /\ pc[Coll] = "collect"
    /\ collectedOutput' = collectedOutput \o frames[cur[Coll]].data
    /\ allFrames' = DB_lockForRead(allFrames, Coll)
    /\ pc' = [pc EXCEPT ![Coll] = "return"]
    /\ UNCHANGED <<runsLeft, sharedBuffers, frames, source, cur, stopped, inRun,
                   dst, mainI, emitted, started, threadPool>>
    /\ UNCHANGED <<bvars, cfgvars, pvars>>

\* DataSource::returnFrame: allFrames.addItem under the read lock, which the
\* calling thread may hold too, in getFrame after a failed read
ReturnFrame ==
    /\ pc[Coll] = "return"
    /\ allFrames' \in DB_addItem(allFrames, Coll, cur[Coll],
                                 pc[Main] = "unget" /\ Main \in allFrames.readers)
    /\ cur' = [cur EXCEPT ![Coll] = NULL]
    /\ pc' = [pc EXCEPT ![Coll] = "get"]
    /\ UNCHANGED <<runsLeft, sharedBuffers, frames, source, stopped, inRun,
                   collectedOutput, dst, mainI, emitted, started, threadPool>>
    /\ UNCHANGED <<bvars, cfgvars, pvars>>

\* markStop() at the end of run()
MarkStop(s) ==
    /\ pc[s] = "stop"
    /\ stopped' = [stopped EXCEPT ![s] = TRUE]
    /\ inRun' = [inRun EXCEPT ![s] = @ - 1]
    /\ pc' = [pc EXCEPT ![s] = "idle"]
    /\ threadPool' = [threadPool EXCEPT !.exiting = @ + 1]
    /\ UNCHANGED <<runsLeft, allFrames, sharedBuffers, frames, source, cur,
                   collectedOutput, dst, mainI, emitted, started>>
    /\ UNCHANGED <<bvars, cfgvars, pvars>>

\* a pool thread whose run() returned takes the next queued stage, or goes idle
ThreadDone ==
    /\ threadPool.exiting > 0
    /\ IF threadPool.queue # <<>>
       THEN LET s == Head(threadPool.queue) IN
            /\ threadPool' = [threadPool EXCEPT !.exiting = @ - 1, !.queue = Tail(@)]
            /\ inRun' = [inRun EXCEPT ![s] = @ + 1]
            /\ pc' = [pc EXCEPT ![s] = "get"]
       ELSE /\ threadPool' = [threadPool EXCEPT !.exiting = @ - 1, !.active = @ - 1]
            /\ UNCHANGED <<inRun, pc>>
    /\ UNCHANGED <<runsLeft, allFrames, sharedBuffers, frames, source, cur, stopped,
                   collectedOutput, dst, mainI, emitted, started>>
    /\ UNCHANGED <<bvars, cfgvars, pvars>>

StreamNext ==
    \/ ProjectUpdateOpen \/ StartInput \/ StartStage
    \/ GetFrameLock \/ GetFrameRead \/ GetFrameWrite \/ GetFrameWoken
    \/ PutFrame \/ UngetFrame \/ StoppedInput \/ WaitStop
    \/ \E s \in Workers : GetItemLock(s)
    \/ \E s \in Workers : GetItemRead(s)
    \/ \E s \in Workers : GetItemWrite(s)
    \/ \E s \in Workers : GetItemWoken(s)
    \/ \E s \in Workers : Project(s)
    \/ \E s \in Workers : AddItem(s)
    \/ \E s \in Workers : MarkStop(s)
    \/ Collect \/ ReturnFrame \/ ThreadDone

(***************************************************************************)
(* openbr_plugin.cpp.  One caller is in one function at a time; fn names   *)
(* it, arg holds its arguments and ret its result.                         *)
(***************************************************************************)
\* no call is being made
PluginIdle ==
    /\ fn = "none"
    /\ arg = <<>>
    /\ ret = <<>>
    /\ lpc = "done"
    /\ li = 0
    /\ futures = <<>>
    /\ parallelism = FALSE

\* no StreamTransform is in use
StreamIdle == StreamInit({0}, {1}, {}, 0, {{}}, {FALSE})

\* Template(): no file, no matrices
EmptyTemplate == [file |-> 0, idx |-> -1, mats |-> 0, FTE |-> FALSE, by |-> 0]

(***************************************************************************)
(* Transform::project(const TemplateList &src, TemplateList &dst): the     *)
(* call is project(arg.src, ret) on a transform whose project throws on    *)
(* the items arg.throws.                                                   *)
(***************************************************************************)
\* the batches of up to n templates, those of throws failing
ProjectCalls(n) ==
    [src : {[i \in 1..k |-> NewTemplate(1, i - 1)] : k \in 0..n},
     throws : SUBSET (1..n)]

ProjectInit ==
    /\ fn = "project"
    /\ arg \in {a \in ProjectCalls(MaxItems) : a.throws \subseteq DOMAIN a.src}
    /\ ret = <<>>
    /\ lpc = "append"
    /\ li = 0
    /\ futures = <<>>
    /\ parallelism \in BOOLEAN

\* dst.reserve(src.size()); for (...) dst.append(Template());
ProjectAppend ==
    /\ fn = "project" /\ lpc = "append"
    /\ ret' = ret \o [i \in 1..Len(arg.src) |-> EmptyTemplate]
    /\ futures' = [i \in 1..Len(arg.src) |-> "none"]
    /\ lpc' = "start"
    /\ li' = 1
    /\ UNCHANGED <<fn, arg, parallelism>>
    /\ UNCHANGED <<bvars, cfgvars, svars>>

\* a result written in the first slot still empty
StoreResultInOrderOfCompletion(list, i, t) ==
    LET free == {j \in 1..Len(list) : list[j] = EmptyTemplate}
    IN [list EXCEPT ![CHOOSE j \in free : \A k \in free : j <= k] = t]

\* *dst = ... through the pointer &dst[i] the task was given
StoreResult(list, i, t) == [list EXCEPT ![i] = t]

\* _project(this, &src[i], &dst[i])
RunProject(i) ==
    ret' = StoreResult(ret, i, ProjectOne(arg.src[i], i \in arg.throws))

\* the second loop: QtConcurrent::run(_project, ...) with parallelism, the
\* call itself without; after it trackFutures, or the return
ProjectStart ==
    /\ fn = "project" /\ lpc = "start"
    /\ IF li > Len(arg.src)
       THEN /\ lpc' = IF parallelism THEN "track" ELSE "done"
            /\ li' = 1
            /\ UNCHANGED <<ret, futures>>
       ELSE /\ IF parallelism
               THEN futures' = [futures EXCEPT ![li] = "running"] /\ ret' = ret
               ELSE RunProject(li) /\ futures' = futures
            /\ li' = li + 1
            /\ lpc' = lpc
    /\ UNCHANGED <<fn, arg, parallelism>>
    /\ UNCHANGED <<bvars, cfgvars, svars>>

\* a thread of the global pool runs the task of item i
ProjectFuture(i) ==
    /\ fn = "project" /\ i \in DOMAIN futures /\ futures[i] = "running"
    /\ RunProject(i)
    /\ futures' = [futures EXCEPT ![i] = "finished"]
    /\ UNCHANGED <<fn, arg, lpc, li, parallelism>>
    /\ UNCHANGED <<bvars, cfgvars, svars>>

\* Context::trackFutures: future.waitForFinished() on each future in turn
TrackFutures ==
    /\ lpc = "track"
    /\ IF li > Len(futures)
       THEN lpc' = "done" /\ li' = li
       ELSE futures[li] = "finished" /\ li' = li + 1 /\ lpc' = lpc
    /\ UNCHANGED <<fn, arg, ret, futures, parallelism>>
    /\ UNCHANGED <<bvars, cfgvars, svars>>

ProjectNext ==
    \/ ProjectAppend \/ ProjectStart \/ TrackFutures
    \/ \E i \in 1..MaxItems : ProjectFuture(i)

(***************************************************************************)
(* Transform::make.  A QString is the sequence of its characters; a class  *)
(* name such as Pipe is written as one character, since its letters are    *)
(* none of the characters make looks at.                                   *)
(***************************************************************************)
\* QString::startsWith, endsWith, mid, left
StartsWith(str, c) == str # <<>> /\ str[1] = c
EndsWith(str, c) == str # <<>> /\ str[Len(str)] = c
Mid(str, position, n) == SubSeq(str, position + 1, position + n)
Left(str, n) == SubSeq(str, 1, n)

RECURSIVE Join(_, _)
\* QStringList::join
Join(words, sep) ==
    IF words = <<>> THEN <<>>
    ELSE IF Len(words) = 1 THEN words[1]
    ELSE words[1] \o sep \o Join(Tail(words), sep)

Opening == {"(", "[", "<", "{"}
Closing == {")", "]", ">", "}"}

RECURSIVE ParseFrom(_, _, _, _, _)
\* the words of str from character i on, the current word starting at start,
\* depth brackets being open
ParseFrom(str, split, i, start, depth) ==
    IF i > Len(str) THEN <<SubSeq(str, start, Len(str))>>
    ELSE IF str[i] \in Opening THEN ParseFrom(str, split, i + 1, start, depth + 1)
    ELSE IF str[i] \in Closing THEN ParseFrom(str, split, i + 1, start, depth - 1)
    ELSE IF depth = 0 /\ str[i] = split
         THEN <<SubSeq(str, start, i - 1)>> \o ParseFrom(str, split, i + 1, i + 1, 0)
    ELSE ParseFrom(str, split, i + 1, start, depth)

\* QtUtils::parse: split str at the separators that are inside no bracket
Parse(str, split) == IF str = <<>> THEN <<>> ELSE ParseFrom(str, split, 1, 1, 0)

RECURSIVE MatchIndex(_, _, _, _)
\* File::init: the loop that looks, from the end, for the bracket that opens
\* the last one; the index (from 0) where depth is 0 again, -1 if nowhere
MatchIndex(name, unnamed, index, depth) ==
    IF index < 0 THEN -1
    ELSE LET c == name[index + 1]
             d == IF c = (IF unnamed THEN ")" ELSE "]") THEN depth - 1
                  ELSE IF c = (IF unnamed THEN "(" ELSE "[") THEN depth + 1
                  ELSE depth
         IN IF d = 0 THEN index ELSE MatchIndex(name, unnamed, index - 1, d)

\* File::init: the entries one bracket of parameters adds to the metadata, in
\* order: <<key, value>>, the key of an unnamed parameter being its index
Parameters(parameters, unnamed) ==
    [i \in 1..Len(parameters) |->
        LET words == Parse(parameters[i], "=") IN
        IF Len(words) < 2
        THEN IF unnamed THEN <<i - 1, words[1]>> ELSE <<words[1], <<>>>>
        ELSE <<words[1], words[2]>>]

RECURSIVE FileInit(_)
\* File::init(file): the name and the metadata, or fatal
FileInit(file) ==
    IF EndsWith(file, "]") \/ EndsWith(file, ")")
    THEN LET unnamed == EndsWith(file, ")")
             index == MatchIndex(file, unnamed, Len(file) - 1, 0)
         IN IF index < 0
            THEN [name |-> file, metadata |-> <<>>, fatal |-> TRUE]
            ELSE LET parameters == Parse(Mid(file, index + 1, Len(file) - index - 2), ",")
                     rest == FileInit(Left(file, index))
                 IN [rest EXCEPT !.metadata = Parameters(parameters, unnamed) \o @]
    ELSE [name |-> file, metadata |-> <<>>, fatal |-> FALSE]

\* the transforms of the registry: whether each declares itself independent
\* and the types of its properties, in the order of their declaration
Registry ==
    [Chain |-> [independent |-> FALSE, properties |-> <<"QList<br::Transform*>">>],
     Pipe |-> [independent |-> FALSE, properties |-> <<"QList<br::Transform*>">>],
     Fork |-> [independent |-> FALSE, properties |-> <<"QList<br::Transform*>">>],
     Cache |-> [independent |-> FALSE, properties |-> <<"br::Transform*">>],
     LoadStore |-> [independent |-> FALSE, properties |-> <<"br::Transform*">>],
     A |-> [independent |-> FALSE, properties |-> <<>>],
     B |-> [independent |-> TRUE, properties |-> <<>>],
     C |-> [independent |-> FALSE, properties |-> <<>>]]

\* Globals->abbreviations
Abbreviations == [X |-> <<"A", "+", "B">>]

\* the process after qFatal
Fatal == [className |-> "qFatal", objectName |-> "", file |-> <<>>, parent |-> <<>>,
          transforms |-> <<>>]

IsFatal(list) == \E i \in 1..Len(list) : list[i].className = "qFatal"

RECURSIVE Make(_, _)

\* Object::setProperty that puts each transform of a list before the others
SetPropertyPrepend(this, type, value) ==
    IF type = "QList<br::Transform*>"
    THEN IF ~StartsWith(value, "[")
         THEN <<Fatal>>
         ELSE LET strings == Parse(Mid(value, 1, Len(value) - 2), ",") IN
              [i \in 1..Len(strings) |-> Make(strings[Len(strings) + 1 - i], this)]
    ELSE IF type = "br::Transform*"
    THEN <<Make(value, this)>>
    ELSE <<>>

\* Object::setProperty(name, value) for the property of type type: the
\* transforms it makes, with this object as their parent
SetProperty(this, type, value) ==
    IF type = "QList<br::Transform*>"
    THEN IF ~StartsWith(value, "[")
         THEN <<Fatal>>
         ELSE LET strings == Parse(Mid(value, 1, Len(value) - 2), ",") IN
              [i \in 1..Len(strings) |-> Make(strings[i], this)]
    ELSE IF type = "br::Transform*"
    THEN <<Make(value, this)>>
    ELSE <<>>

RECURSIVE SetProperties(_, _, _)
\* Object::init: setProperty for each key of the file, in order
SetProperties(this, properties, metadata) ==
    IF metadata = <<>> THEN <<>>
    ELSE LET key == metadata[1][1]
             type == IF key \in 0..(Len(properties) - 1) THEN properties[key + 1] ELSE ""
         IN SetProperty(this, type, metadata[1][2])
              \o SetProperties(this, properties, Tail(metadata))

\* Factory<Transform>::make(f): the object the registry builds for the name
\* of f, initialised from f; fatal for a name it does not know
FactoryMake(f) ==
    LET file == FileInit(f)
        name == IF Len(file.name) = 2 THEN file.name[2] ELSE ""
    IN IF file.fatal \/ name \notin DOMAIN Registry
       THEN Fatal
       ELSE LET transforms == SetProperties(f, Registry[name].properties, file.metadata)
            IN IF IsFatal(transforms)
               THEN Fatal
               ELSE [className |-> name, objectName |-> name, file |-> f,
                     parent |-> <<>>, transforms |-> transforms]

\* the object name of an Independent(transform)
IndependentId(transform) == <<"Independent">> \o transform.file

\* what Transform::make returns for a transform that declares itself
\* independent when it does not wrap it
NoIndependent(transform) == transform

\* Independent::Independent(transform)
NewIndependent(transform) ==
    [className |-> "Independent", objectName |-> transform.objectName,
     file |-> transform.file, parent |-> <<>>,
     transforms |-> <<[transform EXCEPT !.parent = IndependentId(transform)]>>]

\* QObject::setParent
SetParent(transform, parent) ==
    IF transform.className = "qFatal" THEN transform ELSE [transform EXCEPT !.parent = parent]

\* Transform::make that looks for '+' before '!'
MakePlusFirst(str, parent) ==
    IF Len(str) = 1 /\ str[1] \in DOMAIN Abbreviations
    THEN Make(Abbreviations[str[1]], parent)
    ELSE IF Len(Parse(str, "+")) > 1
    THEN Make(<<"Pipe", "(", "[">> \o Join(Parse(str, "+"), <<",">>) \o <<"]", ")">>, parent)
    ELSE IF Len(Parse(str, "!")) > 1
    THEN Make(<<"Chain", "(", "[">> \o Join(Parse(str, "!"), <<",">>) \o <<"]", ")">>, parent)
    ELSE IF Len(Parse(str, "/")) > 1
    THEN Make(<<"Fork", "(", "[">> \o Join(Parse(str, "/"), <<",">>) \o <<"]", ")">>, parent)
    ELSE IF StartsWith(str, "{") /\ EndsWith(str, "}")
    THEN Make(<<"Cache", "(">> \o Mid(str, 1, Len(str) - 2) \o <<")">>, parent)
    ELSE IF StartsWith(str, "<") /\ EndsWith(str, ">")
    THEN Make(<<"LoadStore", "(">> \o Mid(str, 1, Len(str) - 2) \o <<")">>, parent)
    ELSE IF StartsWith(str, "(") /\ EndsWith(str, ")")
    THEN Make(Mid(str, 1, Len(str) - 2), parent)
    ELSE LET transform == FactoryMake(<<".">> \o str) IN
         IF transform.className # "qFatal" /\ Registry[transform.className].independent
         THEN SetParent(NewIndependent(transform), parent)
         ELSE SetParent(transform, parent)

\* Transform::make(str, parent)
Make(str, parent) ==
    IF Len(str) = 1 /\ str[1] \in DOMAIN Abbreviations
    THEN Make(Abbreviations[str[1]], parent)
    ELSE IF Len(Parse(str, "!")) > 1
    THEN Make(<<"Chain", "(", "[">> \o Join(Parse(str, "!"), <<",">>) \o <<"]", ")">>, parent)
    ELSE IF Len(Parse(str, "+")) > 1
    THEN Make(<<"Pipe", "(", "[">> \o Join(Parse(str, "+"), <<",">>) \o <<"]", ")">>, parent)
    ELSE IF Len(Parse(str, "/")) > 1
    THEN Make(<<"Fork", "(", "[">> \o Join(Parse(str, "/"), <<",">>) \o <<"]", ")">>, parent)
    ELSE IF StartsWith(str, "{") /\ EndsWith(str, "}")
    THEN Make(<<"Cache", "(">> \o Mid(str, 1, Len(str) - 2) \o <<")">>, parent)
    ELSE IF StartsWith(str, "<") /\ EndsWith(str, ">")
    THEN Make(<<"LoadStore", "(">> \o Mid(str, 1, Len(str) - 2) \o <<")">>, parent)
    ELSE IF StartsWith(str, "(") /\ EndsWith(str, ")")
    THEN Make(Mid(str, 1, Len(str) - 2), parent)
    ELSE LET transform == FactoryMake(<<".">> \o str) IN
         IF transform.className # "qFatal" /\ Registry[transform.className].independent
         THEN SetParent(NewIndependent(transform), parent)
         ELSE SetParent(transform, parent)

\* the texts of the grammar that are n characters long, over three leaves
Leaves == {"A", "B", "C"}
Separators == {"!", "+", "/"}
Brackets == {<<"{", "}">>, <<"<", ">">>, <<"(", ")">>}

RECURSIVE Texts(_)
Texts(n) ==
    IF n < 1 THEN {}
    ELSE IF n = 1 THEN {<<l>> : l \in Leaves}
    ELSE {<<b[1]>> \o t \o <<b[2]>> : b \in Brackets, t \in Texts(n - 2)}
           \cup UNION {{l \o <<o>> \o r : l \in Texts(k), r \in Texts(n - 1 - k),
                                          o \in Separators} : k \in 1..(n - 2)}

\* a caller makes a transform from a text of up to MaxText characters, or
\* from the abbreviation
MakeInit ==
    /\ fn = "make"
    /\ arg \in [str : UNION {Texts(n) : n \in 1..MaxText} \cup {<<"X">>},
                parent : {<<"caller">>}]
    /\ ret = <<>>
    /\ lpc = "call"
    /\ li = 0
    /\ futures = <<>>
    /\ parallelism = FALSE

MakeCall ==
    /\ fn = "make" /\ lpc = "call"
    /\ ret' = Make(arg.str, arg.parent)
    /\ lpc' = "done"
    /\ UNCHANGED <<fn, arg, li, futures, parallelism>>
    /\ UNCHANGED <<bvars, cfgvars, svars>>

MakeNext == MakeCall

(***************************************************************************)
(* Independent.  Here a Template is its file and the list m of its         *)
(* matrices; a File is its name and its metadata.                          *)
(***************************************************************************)
\* Template(file, m): the template of one matrix
OneMatrix(file, m) == [file |-> file, m |-> <<m>>]

\* Template::merge(other): the matrices of other after those of the template
Merge(t, other) == [t EXCEPT !.m = @ \o other.m]

\* project of the transform an Independent holds, by clone number clone, on
\* the template t: one matrix made from the matrices of t; the transform
\* leaves the file alone, or sets a key of it, or names it anew
ChildProject(does, clone, t) ==
    [file |-> CASE does = "keeps" -> t.file
                [] does = "sets" -> [t.file EXCEPT !.metadata = ("by" :> clone) @@ @]
                [] does = "renames" -> [t.file EXCEPT !.name = <<"out">>],
     m |-> <<[of |-> t.m, file |-> t.file, by |-> clone]>>]

\* the clone that always is the first
CloneOfFirst(i, size) == 0

\* Independent::project: the clone that projects matrix i
CloneOf(i, size) == i % size

\* the input templates: up to n matrices, a file with or without metadata
SrcTemplates(n) ==
    [file : [name : {<<"in">>}, metadata : {<<>>, [Label |-> 1]}],
     m : {[i \in 1..k |-> i - 1] : k \in 0..n}]

IndependentProjectInit ==
    /\ fn = "Independent::project"
    /\ arg \in [src : SrcTemplates(MaxChannels), transforms : 1..MaxChannels,
                does : {"keeps", "sets", "renames"}]
    /\ ret = [file |-> [name |-> <<>>, metadata |-> <<>>], m |-> <<>>]
    /\ lpc = "enter"
    /\ li = 0
    /\ futures = <<>>
    /\ parallelism = FALSE

\* dst.file = src.file;
IndependentProjectEnter ==
    /\ fn = "Independent::project" /\ lpc = "enter"
    /\ ret' = [ret EXCEPT !.file = arg.src.file]
    /\ lpc' = "loop"
    /\ li' = 0
    /\ UNCHANGED <<fn, arg, futures, parallelism>>
    /\ UNCHANGED <<bvars, cfgvars, svars>>

\* one turn of the loop over the matrices of src, or its end
IndependentProjectLoop ==
    /\ fn = "Independent::project" /\ lpc = "loop"
    /\ IF li < Len(arg.src.m)
       THEN /\ ret' = Merge(ret, ChildProject(arg.does, CloneOf(li, arg.transforms),
                                              OneMatrix(arg.src.file, arg.src.m[li + 1])))
            /\ li' = li + 1
            /\ lpc' = lpc
       ELSE /\ lpc' = "done"
            /\ UNCHANGED <<ret, li>>
    /\ UNCHANGED <<fn, arg, futures, parallelism>>
    /\ UNCHANGED <<bvars, cfgvars, svars>>

IndependentProjectNext == IndependentProjectEnter \/ IndependentProjectLoop

(***************************************************************************)
(* Downsample(templates, transform).  A template is here the index id it   *)
(* has in the input list, its Label and its FTE flag; std::random_shuffle  *)
(* may leave any order, so that Downsample is the set of the lists it may  *)
(* return.                                                                 *)
(***************************************************************************)
\* std::numeric_limits<int>::max()
IntMax == 2147483647

Abs(x) == IF x < 0 THEN -x ELSE x
Min(x, y) == IF x < y THEN x ELSE y

\* the lists of n different elements of S: what a shuffle of S may leave in
\* its first n places
Arrangements(S, n) ==
    {a \in [1..n -> S] : \A i, j \in 1..n : a[i] = a[j] => i = j}

RECURSIVE Sorted(_)
\* QMap::keys(): the keys in ascending order
Sorted(S) ==
    IF S = {} THEN <<>>
    ELSE LET least == CHOOSE x \in S : \A y \in S : x <= y
         IN <<least>> \o Sorted(S \ {least})

\* TemplateList::labelCounts(excludeFailures): the number of templates of
\* each label, failed ones left out on demand
LabelCounts(templates, excludeFailures) ==
    LET counted == {j \in 1..Len(templates) : ~excludeFailures \/ ~templates[j].FTE}
    IN [label \in {templates[j].Label : j \in counted} |->
          Cardinality({j \in counted : templates[j].Label = label})]

\* the labels left as keys of counts
UniqueLabels(templates, classes, instances) ==
    LET counts == LabelCounts(templates, instances # IntMax)
    IN IF instances # IntMax /\ classes # IntMax
       THEN {label \in DOMAIN counts : ~(counts[label] < instances)}
       ELSE DOMAIN counts

\* selectedLabels: all of them in order, or the first classes of a shuffle
SelectedLabels(uniqueLabels, classes) ==
    IF classes < Cardinality(uniqueLabels)
    THEN Arrangements(uniqueLabels, classes)
    ELSE {Sorted(uniqueLabels)}

\* the number of templates taken of a label, every one there is
InstancesTakenAll(atLeast, size, instances) == size

\* the number of templates taken of a label that has size of them
InstancesTaken(atLeast, size, instances) ==
    IF atLeast THEN size ELSE Min(size, instances)

\* the templates appended for selectedLabels[i + 1], relabelled from 1 on
OfLabelFromOne(templates, selectedLabel, i, atLeast, instances, relabel) ==
    LET indices == {j \in 1..Len(templates) :
                      templates[j].Label = selectedLabel /\ ~templates[j].FTE}
        max == InstancesTaken(atLeast, Cardinality(indices), instances)
    IN {[j \in 1..max |-> IF relabel THEN [templates[a[j]] EXCEPT !.Label = i + 1]
                          ELSE templates[a[j]]] : a \in Arrangements(indices, max)}

\* the templates appended for selectedLabels[i + 1]
OfLabel(templates, selectedLabel, i, atLeast, instances, relabel) ==
    LET indices == {j \in 1..Len(templates) :
                      templates[j].Label = selectedLabel /\ ~templates[j].FTE}
        max == InstancesTaken(atLeast, Cardinality(indices), instances)
    IN {[j \in 1..max |-> IF relabel THEN [templates[a[j]] EXCEPT !.Label = i]
                          ELSE templates[a[j]]] : a \in Arrangements(indices, max)}

RECURSIVE OfLabels(_, _, _, _, _, _)
\* the lists the loop over selectedLabels may build from place i + 1 on
OfLabels(templates, selectedLabels, i, atLeast, instances, relabel) ==
    IF i >= Len(selectedLabels) THEN {<<>>}
    ELSE {first \o rest :
            first \in OfLabel(templates, selectedLabels[i + 1], i, atLeast, instances, relabel),
            rest \in OfLabels(templates, selectedLabels, i + 1, atLeast, instances, relabel)}

\* downsample.mid(0, downsample.size()*fraction) after a shuffle
Fraction(downsample, fraction) ==
    {[j \in 1..((Len(downsample) * fraction.num) \div fraction.den) |-> downsample[a[j]]] :
        a \in Arrangements(1..Len(downsample), (Len(downsample) * fraction.num) \div fraction.den)}

\* Downsample(templates, transform)
Downsample(templates, transform) ==
    IF transform.classes = IntMax /\ transform.instances = IntMax
         /\ transform.fraction.num >= transform.fraction.den
    THEN {templates}
    ELSE LET atLeast == transform.instances < 0
             instances == Abs(transform.instances)
             uniqueLabels == UniqueLabels(templates, transform.classes, instances)
             built == UNION {OfLabels(templates, selectedLabels, 0, atLeast, instances,
                                      transform.relabel) :
                               selectedLabels \in SelectedLabels(uniqueLabels, transform.classes)}
         IN IF transform.fraction.num < transform.fraction.den
            THEN UNION {Fraction(downsample, transform.fraction) : downsample \in built}
            ELSE built

\* the lists of up to n templates with labels 1, 2 and 3, failed or not
LabelledTemplates(n) ==
    UNION {{[j \in 1..k |-> [id |-> j, Label |-> f[j][1], FTE |-> f[j][2]]] :
              f \in [1..k -> (1..3) \X BOOLEAN]} : k \in 0..n}

\* the values of the properties classes, instances, fraction and relabel
DownsampleTransforms ==
    [classes : {1, 2, IntMax}, instances : {-2, -1, 1, 2, IntMax},
     fraction : {[num |-> 1, den |-> 2], [num |-> 1, den |-> 1]}, relabel : BOOLEAN]

DownsampleInit ==
    /\ fn = "Downsample"
    /\ arg \in [templates : LabelledTemplates(MaxItems), transform : DownsampleTransforms]
    /\ ret = <<>>
    /\ lpc = "call"
    /\ li = 0
    /\ futures = <<>>
    /\ parallelism = FALSE

DownsampleCall ==
    /\ fn = "Downsample" /\ lpc = "call"
    /\ ret' \in Downsample(arg.templates, arg.transform)
    /\ lpc' = "done"
    /\ UNCHANGED <<fn, arg, li, futures, parallelism>>
    /\ UNCHANGED <<bvars, cfgvars, svars>>

DownsampleNext == DownsampleCall

(***************************************************************************)
(* Independent::train(data).  A template of data is its index id, the      *)
(* number size of its matrices, its Label and its FTE flag; a transform of *)
(* the list transforms is its downsampling policy and the list trained of  *)
(* the training sets its train was called with.                            *)
(***************************************************************************)
\* Template(t.file, t[i])
Channel(t, i) == [id |-> t.id, ch |-> i, Label |-> t.Label, FTE |-> t.FTE]

RECURSIVE TemplatesList(_, _)
\* templatesList after the first n turns of the loop over data
TemplatesList(data, n) ==
    IF n = 0 THEN <<>>
    ELSE LET before == TemplatesList(data, n - 1)
             t == data[n]
             grown == before \o [i \in 1..(t.size - Len(before)) |-> <<>>]
         IN [i \in 1..Len(grown) |->
               IF i <= t.size THEN Append(grown[i], Channel(t, i - 1)) ELSE grown[i]]

\* some turn of the loop over data called qWarning
Warned(data) ==
    \E n \in 1..Len(data) :
        LET before == TemplatesList(data, n - 1)
        IN Len(before) # data[n].size /\ before # <<>>

\* Transform::clone: a new transform of the same description and policy
Clone(transform) == [policy |-> transform.policy, trained |-> <<>>]

\* while (transforms.size() < templatesList.size()) transforms.append(...)
GrowTransforms(transforms, size) ==
    transforms \o [i \in 1..(size - Len(transforms)) |-> Clone(transforms[1])]

\* the training sets: up to n templates of 0..MaxChannels matrices
TrainData(n) ==
    UNION {{[j \in 1..k |-> [id |-> j, size |-> f[j][1], Label |-> j, FTE |-> f[j][2]]] :
              f \in [1..k -> (0..MaxChannels) \X BOOLEAN]} : k \in 0..n}

\* the policies of the transform: none, or one template of each label
Policies ==
    {[classes |-> IntMax, instances |-> IntMax, fraction |-> [num |-> 1, den |-> 1],
      relabel |-> FALSE],
     [classes |-> IntMax, instances |-> 1, fraction |-> [num |-> 1, den |-> 1],
      relabel |-> FALSE]}

TrainInit ==
    /\ fn = "Independent::train"
    /\ arg \in [data : TrainData(MaxSrc), untrainable : BOOLEAN,
                transforms : {1, MaxChannels}, policy : Policies]
    /\ ret = [transforms |-> [i \in 1..arg.transforms |-> Clone([policy |-> arg.policy])],
              templatesList |-> <<>>, warned |-> FALSE]
    /\ lpc = "enter"
    /\ li = 0
    /\ futures = <<>>
    /\ parallelism \in BOOLEAN

\* the return for an untrainable transform; otherwise the loop over data,
\* which warns only, and the growth of transforms
TrainEnter ==
    /\ fn = "Independent::train" /\ lpc = "enter"
    /\ IF arg.untrainable
       THEN lpc' = "done" /\ ret' = ret
       ELSE /\ ret' = [transforms |-> GrowTransforms(ret.transforms,
                                         Len(TemplatesList(arg.data, Len(arg.data)))),
                       templatesList |-> TemplatesList(arg.data, Len(arg.data)),
                       warned |-> Warned(arg.data)]
            /\ lpc' = "downsample"
    /\ li' = 0
    /\ UNCHANGED <<fn, arg, futures, parallelism>>
    /\ UNCHANGED <<bvars, cfgvars, svars>>

\* templatesList[i] = Downsample(templatesList[i], transforms[i]);
TrainDownsample ==
    /\ fn = "Independent::train" /\ lpc = "downsample"
    /\ IF li < Len(ret.templatesList)
       THEN /\ \E downsample \in Downsample(ret.templatesList[li + 1],
                                            ret.transforms[li + 1].policy) :
                 ret' = [ret EXCEPT !.templatesList[li + 1] = downsample]
            /\ li' = li + 1
            /\ lpc' = lpc
       ELSE /\ lpc' = "start"
            /\ li' = 0
            /\ ret' = ret
    /\ UNCHANGED <<fn, arg, futures, parallelism>>
    /\ UNCHANGED <<bvars, cfgvars, svars>>

\* threaded whenever parallelism is set
ThreadedAlways == parallelism

\* const bool threaded = Globals->parallelism && (templatesList.size() > 1);
Threaded == parallelism /\ Len(ret.templatesList) > 1

\* every training set given to the first transform
TrainFirst(i) ==
    ret' = [ret EXCEPT !.transforms[1].trained = Append(@, ret.templatesList[i + 1])]

\* _train(transforms[i], &templatesList[i])
Train(i) ==
    ret' = [ret EXCEPT !.transforms[i + 1].trained = Append(@, ret.templatesList[i + 1])]

\* the last loop: QtConcurrent::run(_train, ...) when threaded, the call
\* itself when not; after it trackFutures, or the return
TrainStart ==
    /\ fn = "Independent::train" /\ lpc = "start"
    /\ IF li < Len(ret.templatesList)
       THEN /\ IF Threaded
               THEN futures' = Append(futures, "running") /\ ret' = ret
               ELSE Train(li) /\ futures' = futures
            /\ li' = li + 1
            /\ lpc' = lpc
       ELSE /\ lpc' = IF Threaded THEN "track" ELSE "done"
            /\ li' = 1
            /\ UNCHANGED <<ret, futures>>
    /\ UNCHANGED <<fn, arg, parallelism>>
    /\ UNCHANGED <<bvars, cfgvars, svars>>

\* a thread of the global pool runs the task of channel i
TrainFuture(i) ==
    /\ fn = "Independent::train" /\ i + 1 \in DOMAIN futures /\ futures[i + 1] = "running"
    /\ Train(i)
    /\ futures' = [futures EXCEPT ![i + 1] = "finished"]
    /\ UNCHANGED <<fn, arg, lpc, li, parallelism>>
    /\ UNCHANGED <<bvars, cfgvars, svars>>

TrainNext ==
    \/ TrainEnter \/ TrainDownsample \/ TrainStart \/ TrackFutures
    \/ \E i \in 0..(MaxChannels - 1) : TrainFuture(i)

(***************************************************************************)
(* Object::store and Object::load, Independent::store and load.  An object *)
(* is its className and the list of its properties after objectName, in    *)
(* the order of the meta object: name, type, stored and value; a           *)
(* QDataStream is the list of its bytes.  bool, int and QString values     *)
(* stand for the scalar types, a QString being the list of its characters. *)
(***************************************************************************)
\* QDataStream << int: four bytes, the most significant first
WriteInt(n) ==
    <<(n \div 16777216) % 256, (n \div 65536) % 256, (n \div 256) % 256, n % 256>>

\* QDataStream << bool: one byte
WriteBool(b) == <<IF b THEN 1 ELSE 0>>

RECURSIVE WriteChars(_, _)
\* the characters of a QString from place i on, two bytes each
WriteChars(s, i) ==
    IF i > Len(s) THEN <<>>
    ELSE <<(s[i] \div 256) % 256, s[i] % 256>> \o WriteChars(s, i + 1)

\* QDataStream << QString: the length in bytes, then the characters
WriteString(s) == WriteInt(2 * Len(s)) \o WriteChars(s, 1)

\* QDataStream >> int: <<value, stream left>>; 0 past the end
ReadInt(stream) ==
    IF Len(stream) < 4 THEN <<0, <<>>>>
    ELSE <<stream[1] * 16777216 + stream[2] * 65536 + stream[3] * 256 + stream[4],
           SubSeq(stream, 5, Len(stream))>>

\* QDataStream >> bool
ReadBool(stream) ==
    IF stream = <<>> THEN <<FALSE, <<>>>>
    ELSE <<stream[1] # 0, Tail(stream)>>

\* QDataStream >> QString
ReadString(stream) ==
    LET bytes == ReadInt(stream) IN
    IF Len(bytes[2]) < bytes[1] THEN <<<<>>, <<>>>>
    ELSE <<[i \in 1..(bytes[1] \div 2) |-> bytes[2][2 * i - 1] * 256 + bytes[2][2 * i]],
           SubSeq(bytes[2], bytes[1] + 1, Len(bytes[2]))>>

RECURSIVE Store(_), StoreProperties(_, _), StoreAll(_, _, _)

\* transform->store(stream) on transforms[i], ..., transforms[n]
StoreAll(transforms, i, n) ==
    IF i > n THEN <<>>
    ELSE Store(transforms[i]) \o StoreAll(transforms, i + 1, n)

\* the loop of Object::store from property i on: what it writes
StoreProperties(this, i) ==
    IF i > Len(this.properties) THEN <<>>
    ELSE LET property == this.properties[i]
         IN IF ~property.stored THEN StoreProperties(this, i + 1)
            ELSE (CASE property.type = "QList<br::Transform*>" ->
                         StoreAll(property.value, 1, Len(property.value))
                    [] property.type = "br::Transform*" -> Store(property.value)
                    [] property.type = "bool" -> WriteBool(property.value)
                    [] property.type = "int" -> WriteInt(property.value)
                    [] property.type = "QString" -> WriteString(property.value))
                   \o StoreProperties(this, i + 1)

\* store(stream), of Independent or of Object: the bytes written
Store(this) ==
    IF this.className = "Independent"
    THEN LET transforms == this.properties[1].value
         IN WriteInt(Len(transforms)) \o StoreAll(transforms, 1, Len(transforms))
    ELSE StoreProperties(this, 1)

RECURSIVE Built(_)
\* the object Transform::make builds from the description of t: each scalar
\* property as the description sets it, an Independent with one transform
Built(t) ==
    IF t.className = "Independent"
    THEN [t EXCEPT !.properties[1].value = <<Built(@[1])>>]
    ELSE [t EXCEPT !.properties =
            [i \in 1..Len(@) |->
               CASE @[i].type = "QList<br::Transform*>" ->
                      [@[i] EXCEPT !.value = [k \in 1..Len(@) |-> Built(@[k])]]
                 [] @[i].type = "br::Transform*" -> [@[i] EXCEPT !.value = Built(@)]
                 [] @[i].type = "bool" -> [@[i] EXCEPT !.value = FALSE]
                 [] @[i].type = "int" -> [@[i] EXCEPT !.value = 0]
                 [] @[i].type = "QString" -> [@[i] EXCEPT !.value = <<>>]]]

RECURSIVE Load(_, _), LoadProperties(_, _, _), LoadAll(_, _, _, _)

\* transform->load(stream) on transforms[i], ..., transforms[n]:
\* <<transforms, stream left>>
LoadAll(transforms, i, n, stream) ==
    IF i > n THEN <<transforms, stream>>
    ELSE LET r == Load(transforms[i], stream)
         IN LoadAll([transforms EXCEPT ![i] = r[1]], i + 1, n, r[2])

\* the loop of Object::load from property i on: <<object, stream left>>
LoadProperties(this, i, stream) ==
    IF i > Len(this.properties) THEN <<this, stream>>
    ELSE LET property == this.properties[i]
         IN IF ~property.stored THEN LoadProperties(this, i + 1, stream)
            ELSE LET r == CASE property.type = "QList<br::Transform*>" ->
                                 LoadAll(property.value, 1, Len(property.value), stream)
                            [] property.type = "br::Transform*" ->
                                 Load(property.value, stream)
                            [] property.type = "bool" -> ReadBool(stream)
                            [] property.type = "int" -> ReadInt(stream)
                            [] property.type = "QString" -> ReadString(stream)
                 IN LoadProperties([this EXCEPT !.properties[i].value = r[1]], i + 1, r[2])

\* Independent::load that reads the transforms it has and adds none
LoadNoGrowth(this, stream) ==
    IF this.className = "Independent"
    THEN LET transforms == this.properties[1].value
             size == ReadInt(stream)
             r == LoadAll(transforms, 1, Len(transforms), size[2])
         IN <<[this EXCEPT !.properties[1].value = r[1]], r[2]>>
    ELSE LoadProperties(this, 1, stream)

\* load(stream), of Independent or of Object, init() a hook that does
\* nothing: <<object, stream left>>
Load(this, stream) ==
    IF this.className = "Independent"
    THEN LET transforms == this.properties[1].value
             size == ReadInt(stream)
             grown == transforms \o
                        [k \in 1..(size[1] - Len(transforms)) |-> Built(transforms[1])]
             r == LoadAll(grown, 1, size[1], size[2])
         IN <<[this EXCEPT !.properties[1].value = r[1]], r[2]>>
    ELSE LoadProperties(this, 1, stream)

\* a transform without children: an int, a bool and a QString that are
\* stored and an int that is not
Leaf(a, b, s) ==
    [className |-> "Leaf",
     properties |-> <<[name |-> "a", type |-> "int", stored |-> TRUE, value |-> a],
                      [name |-> "c", type |-> "int", stored |-> FALSE, value |-> 0],
                      [name |-> "b", type |-> "bool", stored |-> TRUE, value |-> b],
                      [name |-> "s", type |-> "QString", stored |-> TRUE, value |-> s]>>]

TrainedLeaves == {Leaf(a, b, s) : a \in {0, 300}, b \in BOOLEAN, s \in {<<>>, <<65, 66>>}}

\* an Independent: Q_PROPERTY(QList<Transform*> transforms ... STORED false)
IndependentOf(transforms) ==
    [className |-> "Independent",
     properties |-> <<[name |-> "transforms", type |-> "QList<br::Transform*>",
                       stored |-> FALSE, value |-> transforms]>>]

\* the Independents of up to n trained clones of a leaf
TrainedIndependents(n) ==
    UNION {{IndependentOf(transforms) : transforms \in [1..k -> TrainedLeaves]} : k \in 1..n}

\* a transform with the list property transforms
ListOfTransforms(transforms) ==
    [className |-> "Pipe",
     properties |-> <<[name |-> "transforms", type |-> "QList<br::Transform*>",
                       stored |-> TRUE, value |-> transforms]>>]

\* a transform with the property transform
OneTransform(transform) ==
    [className |-> "Cache",
     properties |-> <<[name |-> "transform", type |-> "br::Transform*",
                       stored |-> TRUE, value |-> transform]>>]

\* the trained trees: a leaf, an Independent, a list of a leaf and an
\* Independent, a single Independent under a parent
TrainedTrees ==
    TrainedLeaves
      \cup TrainedIndependents(MaxChannels)
      \cup {ListOfTransforms(<<l, t>>) : l \in TrainedLeaves, t \in TrainedIndependents(2)}
      \cup {OneTransform(t) : t \in TrainedIndependents(2)}

StoreInit ==
    /\ fn = "store"
    /\ arg \in [tree : TrainedTrees]
    /\ ret = [stream |-> <<>>, loaded |-> Built(arg.tree), left |-> <<>>]
    /\ lpc = "store"
    /\ li = 0
    /\ futures = <<>>
    /\ parallelism = FALSE

\* tree.store(stream)
StoreCall ==
    /\ fn = "store" /\ lpc = "store"
    /\ ret' = [ret EXCEPT !.stream = Store(arg.tree)]
    /\ lpc' = "load"
    /\ UNCHANGED <<fn, arg, li, futures, parallelism>>
    /\ UNCHANGED <<bvars, cfgvars, svars>>

\* load(stream) on the tree built from the same description
LoadCall ==
    /\ fn = "store" /\ lpc = "load"
    /\ LET r == Load(ret.loaded, ret.stream)
       IN ret' = [ret EXCEPT !.loaded = r[1], !.left = r[2]]
    /\ lpc' = "done"
    /\ UNCHANGED <<fn, arg, li, futures, parallelism>>
    /\ UNCHANGED <<bvars, cfgvars, svars>>

StoreNext == StoreCall \/ LoadCall

(***************************************************************************)
(* Specifications.                                                         *)
(***************************************************************************)
\* one projectUpdate call on a new StreamTransform of up to MaxStages
\* transforms, none of which throws
Init ==
    /\ BufIdle
    /\ PluginIdle
    /\ StreamInit(0..MaxStages, 1..MaxPool, Inputs(MaxSrc), 1, {{}}, BOOLEAN)

Next == StreamNext

Spec == Init /\ [][Next]_vars

\* two projectUpdate calls, one after the other, on the same StreamTransform;
\* the pool and the inputs are one smaller than in Spec, the second call
\* starting from every state the first can leave
RerunInit ==
    /\ BufIdle
    /\ PluginIdle
    /\ StreamInit(0..MaxStages, 1..(MaxPool - 1), Inputs(MaxSrc - 1), 2, {{}}, BOOLEAN)

RerunNext == StreamNext

RerunSpec == RerunInit /\ [][RerunNext]_vars

\* the inputs that hold loaded matrices
TemplateInputs(sizes) == [kind : {"template"}, opens : {TRUE}, size : sizes]

\* one projectUpdate call where one transform throws on one frame: any stage
\* and any frame of an in-memory source within the bounds, or the pipeline
\* A+B over an in-memory source of five frames whose stage A throws on frame 2
ThrowInit ==
    /\ BufIdle
    /\ PluginIdle
    /\ \/ StreamInit(1..MaxStages, {MaxPool}, TemplateInputs({MaxSrc}), 1,
                     {{<<s, q>>} : s \in 1..MaxStages, q \in 0..(MaxSrc - 1)}, {FALSE})
       \/ StreamInit({2}, {MaxPool - 1}, TemplateInputs({5}), 1, {{<<1, 2>>}}, {FALSE})

ThrowNext == StreamNext

ThrowSpec == ThrowInit /\ [][ThrowNext]_vars

\* one buffer between a producer and a consumer thread
BufferInit ==
    /\ BufInit
    /\ StreamInit({0}, {1}, {}, 0, {{}}, {FALSE})
    /\ PluginIdle

BufferNext == BufNext

BufferSpec == BufferInit /\ [][BufferNext]_vars

\* one projectUpdate call with every thread scheduled: a step that stays
\* possible is taken.  The pool is one smaller than in Spec.
FairInit ==
    /\ BufIdle
    /\ PluginIdle
    /\ \/ StreamInit(0..MaxStages, 1..(MaxPool - 1), Inputs(MaxSrc), 1, {{}}, {FALSE})
       \/ StreamInit(0..(MaxStages - 1), {MaxPool}, Inputs(MaxSrc), 1, {{}}, {FALSE})

FairNext == StreamNext

FairSpec == FairInit /\ [][FairNext]_vars /\ WF_vars(FairNext)

\* BufferSpec with the consumer thread scheduled
FairBufferSpec == BufferSpec /\ WF_vars(ConsumerStep)

\* on a StreamTransform of MaxStages transforms with a pool one smaller than
\* in Spec: two projectUpdate calls, one after the other, each on a template
\* of MaxSrc - 1 matrices, or one call on a template or a video of MaxSrc
\* frames
SequenceInit ==
    /\ BufIdle
    /\ PluginIdle
    /\ \/ StreamInit({MaxStages}, {MaxPool - 1}, TemplateInputs({MaxSrc - 1}), 2,
                     {{}}, {FALSE})
       \/ StreamInit({MaxStages}, {MaxPool - 1},
                     [kind : {"template", "video"}, opens : {TRUE}, size : {MaxSrc}], 1,
                     {{}}, {FALSE})

SequenceNext == StreamNext

SequenceSpec == SequenceInit /\ [][SequenceNext]_vars

\* one call of Transform::project on a batch of up to MaxItems templates
ProjectSpecInit ==
    /\ BufIdle
    /\ StreamIdle
    /\ ProjectInit

ProjectSpec == ProjectSpecInit /\ [][ProjectNext]_vars

\* one call of Transform::make
MakeSpecInit ==
    /\ BufIdle
    /\ StreamIdle
    /\ MakeInit

MakeSpec == MakeSpecInit /\ [][MakeNext]_vars

\* one call of Independent::project on a template of up to MaxChannels
\* matrices, the Independent holding up to MaxChannels clones
IndependentProjectSpecInit ==
    /\ BufIdle
    /\ StreamIdle
    /\ IndependentProjectInit

IndependentProjectSpec == IndependentProjectSpecInit /\ [][IndependentProjectNext]_vars

\* one call of Downsample on a list of up to MaxItems templates
DownsampleSpecInit ==
    /\ BufIdle
    /\ StreamIdle
    /\ DownsampleInit

DownsampleSpec == DownsampleSpecInit /\ [][DownsampleNext]_vars

\* one call of Independent::train on up to MaxSrc templates
TrainSpecInit ==
    /\ BufIdle
    /\ StreamIdle
    /\ TrainInit

TrainSpec == TrainSpecInit /\ [][TrainNext]_vars

\* store on a trained tree, then load on the tree built from the same text
StoreSpecInit ==
    /\ BufIdle
    /\ StreamIdle
    /\ StoreInit

StoreSpec == StoreSpecInit /\ [][StoreNext]_vars

(***************************************************************************)
(* Properties.                                                             *)
(***************************************************************************)
\* projectUpdate has returned from a run that started its stages
Returned == pc[Main] = "idle" /\ started

\* the items of collectedOutput that the current run appended
ThisRun(out) == SelectSeq(out, LAMBDA t : t.file = runsLeft + 1)

\* the frames a thread holds
Held(t) == IF cur[t] = NULL THEN <<>> ELSE <<cur[t]>>

RECURSIVE Flatten(_, _)
\* the concatenation of f[0], ..., f[n]
Flatten(f, n) == IF n < 0 THEN <<>> ELSE Flatten(f, n - 1) \o f[n]

\* every place a FrameData pointer is held: pool, buffers, stages
Holders ==
    DB_Items(allFrames)
      \o Flatten([i \in 0..nStages |-> DB_Items(sharedBuffers[i])], nStages)
      \o Flatten([t \in AllThreads |-> Held(t)], Coll)

Count(seq, x) == Cardinality({i \in 1..Len(seq) : seq[i] = x})

\* C1: in every run the collector receives the frames in sequence-number
\* order 0, 1, 2, ..., and the items the run appends to the output are in the
\* order in which the source emitted them, whatever the number of stages.
C1_OrderPreserved ==
    /\ pc[Coll] = "collect" =>
         frames[cur[Coll]].sequenceNumber = Len(ThisRun(collectedOutput))
    /\ \A i \in 1..Len(ThisRun(collectedOutput)) :
         ThisRun(collectedOutput)[i].idx = i - 1

C1_Witness == Returned /\ nStages >= 1 /\ Len(ThisRun(dst)) >= 2

\* C2: when projectUpdate returns from a run, the output holds as many items
\* as the source emitted frames in that run.
C2_LengthIsEmitted == Returned => Len(dst) = emitted

\* C3: the consumer receives the pushed items in push order, none twice and
\* none lost: what it has received is always the first items pushed, and once
\* getItem has returned NULL it has received all of them and NULL once.
C3_FifoExactlyOnce ==
    /\ Len(received) <= pushed
    /\ \A i \in 1..Len(received) : received[i] = i
    /\ ends <= 1
    /\ tpc[Consumer] = "done" => (ends = 1 /\ Len(received) = toPush)

C3_Witness ==
    /\ kind = "DoubleBuffer" /\ tpc[Consumer] = "done" /\ Len(received) >= 2
    /\ double.inputBuffer = 2

\* C4: getItem has returned NULL only with stoppedInput called and no item
\* left in the buffer (in neither list of a DoubleBuffer), and it never
\* returns a value that was not pushed.
C4_EndOnlyWhenDrained ==
    /\ ends > 0 =>
         /\ tpc[Producer] = "done"
         /\ IF kind = "SingleBuffer" THEN single.buffer = <<>> /\ single.no_input
            ELSE DB_Items(double) = <<>> /\ double.no_input
    /\ \A i \in 1..Len(received) : received[i] \in 1..pushed

C4_Witness == kind = "SingleBuffer" /\ ends = 1 /\ Len(received) >= 1

\* C5: a consumer blocked in getItem when stoppedInput is called is woken
\* and its getItem returns NULL in the end.
C5_StopWakesConsumer ==
    (tpc[Consumer] = "wait" /\ tpc[Producer] = "done") ~> (ends = 1)

C5_Witness ==
    /\ kind = "DoubleBuffer" /\ tpc[Consumer] = "wait" /\ tpc[Producer] = "done"
    /\ DB_Items(double) = <<>>

\* C6: a run whose data source opened always drains: projectUpdate returns
\* with every stage stopped.
C6_RunCompletes ==
    (pc[Main] = "startInput") ~> (Returned /\ \A s \in Workers : stopped[s])

C6_Witness == Returned /\ nStages = MaxStages /\ emitted = MaxSrc

\* C7: a transform that throws on one frame stops nothing: the run returns
\* every frame in order, the item of the frame that failed without matrices
\* and with FTE set, every other item projected by every stage.
C7_FailureMarked ==
    Returned =>
      /\ Len(dst) = emitted
      /\ \A i \in 1..Len(dst) :
           /\ dst[i].idx = i - 1
           /\ dst[i].FTE <=> (\E s \in Stages : <<s, i - 1>> \in throwsAt)
           /\ dst[i].mats = IF dst[i].FTE THEN 0 ELSE 1
           /\ ~dst[i].FTE => dst[i].by = nStages

C7_Witness ==
    /\ Returned /\ nStages = 2 /\ Len(dst) = 5
    /\ dst[3].FTE /\ \A i \in {1, 2, 4, 5} : ~dst[i].FTE

\* C8: a projectUpdate call whose source emitted no frame returned an empty
\* output and started no stage.
C8_NothingOnOpenFailure ==
    (pc[Main] = "idle" /\ runsLeft = 0 /\ emitted = 0) => (dst = <<>> /\ ~started)

\* C9: no stage's run(), and so no transform, is ever entered by two threads
\* at once; the pool has nStages + 1 threads, never more are active, and a
\* started stage waits for a thread only while one is about to be free.
C9_OneThreadPerStage ==
    /\ \A s \in Workers : inRun[s] <= 1
    /\ \A s \in Workers : pc[s] # "idle" => inRun[s] = 1
    /\ threadPool.maxThreadCount = nStages + 1
    /\ threadPool.active <= threadPool.maxThreadCount
    /\ threadPool.queue # <<>> => threadPool.exiting > 0

C9_Witness ==
    /\ runsLeft = 0 /\ Len(collectedOutput) >= 1
    /\ nStages >= 1 /\ \A s \in Stages : pc[s] = "project"
    /\ frames[cur[1]].data[1].file = 1
    /\ threadPool.active = nStages + 1

\* C10: every FrameData has exactly one holder: the pool, one buffer or one
\* stage.
C10_OneHolder == \A f \in DOMAIN frames : Count(Holders, f) = 1

\* the frames outside the free pool: in the buffers between the stages or
\* held by a stage
Outside ==
    Flatten([i \in 0..nStages |-> DB_Items(sharedBuffers[i])], nStages)
      \o Flatten([t \in AllThreads |-> Held(t)], Coll)

\* C11: the pool is of fixed size: never more frames are outside the pool
\* than it was built with, every frame in use is one of those (none is
\* created in a run), and a source that found the pool empty stays in
\* getFrame until a frame is back in the pool, which it then takes.
C11_FixedPool ==
    /\ [](/\ Len(Outside) <= Len(frames)
          /\ \A i \in 1..Len(Holders) : Holders[i] \in DOMAIN frames
          /\ pc[Main] # "crashed")
    /\ [][/\ DOMAIN frames' = DOMAIN frames
          /\ (pc[Main] = "get_wait" /\ pc'[Main] # "get_wait") =>
                (DB_Items(allFrames) # <<>> /\ cur'[Main] = Head(DB_Items(allFrames)))
          /\ (pc[Main] # "get_wait" /\ pc'[Main] = "get_wait") =>
                DB_Items(allFrames) = <<>>]_vars

C11_Witness ==
    /\ pc[Main] = "get_wait" /\ Main \notin allFrames.waiters
    /\ DB_Items(allFrames) # <<>> /\ Len(Outside) = Len(frames) - 1
    /\ pc[Coll] = "get"

\* C12: never are two threads inside addItem of the pool's DoubleBuffer at
\* once, both about to append to its input list.
C12_PoolOneWriter ==
    ~(/\ pc[Main] = "unget" /\ Main \in allFrames.readers
      /\ pc[Coll] = "return" /\ Coll \in allFrames.readers)

\* Transform::project has returned
ProjectDone == fn = "project" /\ lpc = "done"

\* C13: Transform::project leaves in dst one result per item of src, the
\* result of item i in slot i, with and without parallelism and in whatever
\* order the tasks ran; a slot is written by the task of its own item only.
C13_BatchInOrder ==
    /\ fn = "project" /\ lpc # "append" =>
         /\ Len(ret) = Len(arg.src)
         /\ \A i \in 1..Len(ret) :
              ret[i] = EmptyTemplate \/ ret[i].idx = arg.src[i].idx
    /\ ProjectDone =>
         \A i \in 1..Len(ret) :
           /\ ret[i].idx = arg.src[i].idx /\ ret[i].file = arg.src[i].file
           /\ i \notin arg.throws => (ret[i].by = 1 /\ ret[i].mats = arg.src[i].mats)

C13_Witness ==
    /\ ProjectDone /\ parallelism /\ Len(ret) = MaxItems /\ arg.throws = {}
    /\ \A i \in 1..Len(ret) : ret[i].by = 1

\* C14: an item whose project throws comes out of the batch call as a
\* template with the item's file, no matrices and FTE set; the other items
\* come out projected and without the flag, and the output has one item per
\* input item.
C14_BatchFailureMarked ==
    ProjectDone =>
      /\ Len(ret) = Len(arg.src)
      /\ \A i \in 1..Len(ret) :
           IF i \in arg.throws
           THEN ret[i] = [arg.src[i] EXCEPT !.mats = 0, !.FTE = TRUE]
           ELSE ret[i] = [arg.src[i] EXCEPT !.by = 1]

C14_Witness ==
    /\ ProjectDone /\ Len(ret) = MaxItems /\ arg.throws = {2}
    /\ ret[2].FTE /\ ret[2].mats = 0 /\ ~ret[1].FTE /\ ret[3].mats = 1

\* Transform::make has returned
MakeDone == fn = "make" /\ lpc = "done"

\* the object names of a list of transforms
Names(list) == [i \in 1..Len(list) |-> list[i].objectName]

\* C15: for leaves l, r and m, make on "l+r" returns a Pipe with the two
\* children l and r in that order, on "l/r" a Fork with the two children l
\* and r, on "{l}" a Cache wrapping l, on "<l>" a LoadStore wrapping l, and
\* on "(l+r)/m" a Fork whose first child is the Pipe of l and r and whose
\* second child is m.
C15_MakeShapes ==
    MakeDone =>
      /\ \A l, r \in Leaves :
           /\ arg.str = <<l, "+", r>> =>
                ret.className = "Pipe" /\ Names(ret.transforms) = <<l, r>>
           /\ arg.str = <<l, "/", r>> =>
                ret.className = "Fork" /\ Names(ret.transforms) = <<l, r>>
           /\ \A m \in Leaves :
                arg.str = <<"(", l, "+", r, ")", "/", m>> =>
                  /\ ret.className = "Fork" /\ Len(ret.transforms) = 2
                  /\ ret.transforms[1].className = "Pipe"
                  /\ Names(ret.transforms[1].transforms) = <<l, r>>
                  /\ ret.transforms[2].objectName = m
                  /\ ret.transforms[2].className \in {m, "Independent"}
      /\ \A l \in Leaves :
           /\ arg.str = <<"{", l, "}">> =>
                ret.className = "Cache" /\ Names(ret.transforms) = <<l>>
           /\ arg.str = <<"<", l, ">">> =>
                ret.className = "LoadStore" /\ Names(ret.transforms) = <<l>>

C15_Witness ==
    /\ MakeDone /\ arg.str = <<"(", "A", "+", "B", ")", "/", "C">>
    /\ ret.className = "Fork" /\ Names(ret.transforms) = <<"Pipe", "C">>
    /\ Names(ret.transforms[1].transforms) = <<"A", "B">>

\* the transform make returns for a list of words: of class class, its
\* children the transforms made from the words, each on its own, in order
ListOf(class, words) ==
    /\ ret.className = class
    /\ Len(ret.transforms) = Len(words)
    /\ \A i \in 1..Len(words) : ret.transforms[i] = Make(words[i], ret.file)

\* C16: make splits on '!' before '+' and on '+' before '/', at the
\* separators that are inside no bracket, and looks at surrounding brackets
\* only when there is nothing to split; each word and each bracketed text is
\* made on its own and put in as one child.  "A!B+C" is Chain(A, Pipe(B, C))
\* and "A+B/C" is Pipe(A, Fork(B, C)).
C16_MakePrecedence ==
    (MakeDone /\ arg.str # <<"X">>) =>
      LET str == arg.str
          whole == Len(Parse(str, "!")) = 1 /\ Len(Parse(str, "+")) = 1
                     /\ Len(Parse(str, "/")) = 1
          inner == Mid(str, 1, Len(str) - 2)
      IN /\ Len(Parse(str, "!")) > 1 => ListOf("Chain", Parse(str, "!"))
         /\ (Len(Parse(str, "!")) = 1 /\ Len(Parse(str, "+")) > 1) =>
              ListOf("Pipe", Parse(str, "+"))
         /\ (Len(Parse(str, "!")) = 1 /\ Len(Parse(str, "+")) = 1
               /\ Len(Parse(str, "/")) > 1) => ListOf("Fork", Parse(str, "/"))
         /\ (whole /\ str[1] = "{") => ListOf("Cache", <<inner>>)
         /\ (whole /\ str[1] = "<") => ListOf("LoadStore", <<inner>>)
         /\ (whole /\ str[1] = "(") => ret = Make(inner, arg.parent)
         /\ str = <<"A", "!", "B", "+", "C">> =>
              /\ ret.className = "Chain" /\ Names(ret.transforms) = <<"A", "Pipe">>
              /\ Names(ret.transforms[2].transforms) = <<"B", "C">>
         /\ str = <<"A", "+", "B", "/", "C">> =>
              /\ ret.className = "Pipe" /\ Names(ret.transforms) = <<"A", "Fork">>
              /\ Names(ret.transforms[2].transforms) = <<"B", "C">>

C16_Witness ==
    /\ MakeDone /\ arg.str = <<"A", "!", "B", "+", "C">>
    /\ ret.className = "Chain" /\ ret.transforms[2].className = "Pipe"

RECURSIVE Wrapped(_, _)
\* in the tree under node, whose parent is to be parent: every transform
\* that declares itself independent is the first clone of an Independent
\* with its name and file, and no other transform is in an Independent
Wrapped(node, parent) ==
    /\ node.parent = parent
    /\ IF node.className = "Independent"
       THEN /\ Len(node.transforms) = 1
            /\ Registry[node.transforms[1].className].independent
            /\ node.objectName = node.transforms[1].objectName
            /\ node.file = node.transforms[1].file
            /\ node.transforms[1].parent = IndependentId(node)
       ELSE /\ ~Registry[node.className].independent
            /\ \A i \in 1..Len(node.transforms) : Wrapped(node.transforms[i], node.file)

\* C17: make on a leaf text returns the leaf itself when the transform the
\* registry builds does not declare itself independent, and otherwise an
\* Independent that holds that transform as its first clone and has its
\* object name and file; the parent of what make returns is the parent it
\* was given.  The same holds of every leaf inside a longer text.
C17_IndependentWrapped ==
    MakeDone =>
      /\ Wrapped(ret, arg.parent)
      /\ \A l \in Leaves :
           arg.str = <<l>> =>
             IF Registry[l].independent
             THEN ret.className = "Independent" /\ ret.transforms[1].className = l
                    /\ ret.objectName = l /\ ret.file = <<".", l>>
             ELSE ret.className = l /\ ret.transforms = <<>>

C17_Witness ==
    /\ MakeDone /\ arg.str = <<"B">> /\ ret.className = "Independent"
    /\ ret.transforms[1].className = "B" /\ ret.parent = <<"caller">>

\* Independent::project has returned
IndependentProjectDone == fn = "Independent::project" /\ lpc = "done"

DownsampleDone == fn = "Downsample" /\ lpc = "done"

\* the input label of a returned template
InputLabel(t) == arg.templates[t.id].Label

\* the places of the returned list that hold templates of input label label
Returned_(label) == {k \in 1..Len(ret) : InputLabel(ret[k]) = label}

Mismatched(data) == \E j, k \in DOMAIN data : data[j].size # data[k].size

\* C20: when the templates given to Independent::train do not all have the
\* same number of channels, the training is given up and the train of no
\* transform of the list is called.
C20_MismatchIsFatal ==
    (fn = "Independent::train" /\ ~arg.untrainable /\ Mismatched(arg.data)) =>
        \A i \in DOMAIN ret.transforms : ret.transforms[i].trained = <<>>

\* Independent::train has returned from a trainable transform
TrainDone == fn = "Independent::train" /\ lpc = "done" /\ ~arg.untrainable

\* the places of data whose templates have a matrix i
HavingChannel(data, i) == {j \in 1..Len(data) : data[j].size > i}

\* the largest number of matrices of a template of data
LargestSize(data) ==
    IF data = <<>> THEN 0
    ELSE CHOOSE n \in {data[j].size : j \in 1..Len(data)} :
           \A j \in 1..Len(data) : data[j].size <= n

\* list holds matrix i of the templates of data that have one, in their order
IsPartition(list, data, i) ==
    /\ Len(list) = Cardinality(HavingChannel(data, i))
    /\ \A k \in 1..Len(list) :
         /\ list[k].id \in HavingChannel(data, i)
         /\ list[k] = Channel(data[list[k].id], i)
    /\ \A k, l \in 1..Len(list) : k < l => list[k].id < list[l].id

\* C26: Independent::train on a trainable transform ends with as many
\* partitions as the largest template has channels, with no fewer clones
\* than before, at least one and at least one for each partition; partition
\* i is a downsampling, by the policy of clone i, of channel i of the
\* templates that have one, in their order; and clone i was trained once,
\* with partition i, the clones beyond the partitions not at all.
C26_TrainPerChannel ==
    TrainDone =>
      /\ Len(ret.templatesList) = LargestSize(arg.data)
      /\ Len(ret.transforms) >= arg.transforms
      /\ Len(ret.transforms) >= 1
      /\ Len(ret.transforms) >= LargestSize(arg.data)
      /\ \A i \in 1..Len(ret.templatesList) :
           \E list \in [1..Cardinality(HavingChannel(arg.data, i - 1)) ->
                          {Channel(arg.data[j], i - 1) : j \in 1..Len(arg.data)}] :
             /\ IsPartition(list, arg.data, i - 1)
             /\ ret.templatesList[i] \in Downsample(list, ret.transforms[i].policy)
      /\ \A i \in 1..Len(ret.transforms) :
           /\ ret.transforms[i].policy = arg.policy
           /\ ret.transforms[i].trained =
                IF i <= Len(ret.templatesList) THEN <<ret.templatesList[i]>> ELSE <<>>

C26_Witness ==
    /\ TrainDone /\ arg.transforms = 1 /\ Len(ret.transforms) = MaxChannels
    /\ Len(arg.data) = 2 /\ arg.data[1].size = 1 /\ arg.data[2].size = MaxChannels
    /\ arg.data[1].FTE /\ arg.policy.instances = 1
    /\ ret.transforms[1].trained = <<<<Channel(arg.data[2], 0)>>>>

\* C27: Independent::train starts tasks only with parallelism on and more
\* than one partition, and then one task for each partition; a task that
\* ends has trained the clone of its own index, with the partition of its
\* index, and has changed no other clone and no partition; and train has
\* not returned while a task has not finished.
C27_TrainTasks ==
    /\ [](fn = "Independent::train" =>
            /\ futures # <<>> => parallelism /\ Len(ret.templatesList) > 1
            /\ (lpc \in {"track", "done"} /\ parallelism /\ Len(ret.templatesList) > 1) =>
                  Len(futures) = Len(ret.templatesList)
            /\ (lpc \in {"track", "done"} /\ ~(parallelism /\ Len(ret.templatesList) > 1)) =>
                  futures = <<>>
            /\ lpc = "done" => \A i \in DOMAIN futures : futures[i] = "finished")
    /\ [][fn = "Independent::train" =>
            \A i \in DOMAIN futures :
               (futures[i] = "running" /\ futures'[i] = "finished") =>
                  /\ ret'.templatesList = ret.templatesList
                  /\ ret'.transforms[i].trained = Append(ret.transforms[i].trained,
                                                         ret.templatesList[i])
                  /\ ret.transforms[i].trained = <<>>
                  /\ \A j \in DOMAIN ret.transforms :
                        j # i => ret'.transforms[j] = ret.transforms[j]]_vars

C27_Witness ==
    /\ fn = "Independent::train" /\ lpc = "done" /\ Len(futures) = MaxChannels
    /\ \A i \in DOMAIN futures : ret.transforms[i].trained = <<ret.templatesList[i]>>

\* some cap is set, so that Downsample does not return its input as it is
Capped(transform) ==
    ~(transform.classes = IntMax /\ transform.instances = IntMax
        /\ transform.fraction.num >= transform.fraction.den)

\* the number of templates of label the instance cap lets through
Taken(templates, label, transform) ==
    LET available == Cardinality({j \in 1..Len(templates) :
                                    templates[j].Label = label /\ ~templates[j].FTE})
    IN IF transform.instances < 0 THEN available
       ELSE Min(available, transform.instances)

RECURSIVE TakenFrom(_, _, _, _)
\* the number of templates let through of the labels selected[n], ...
TakenFrom(templates, selected, n, transform) ==
    IF n > Len(selected) THEN 0
    ELSE Taken(templates, selected[n], transform)
           + TakenFrom(templates, selected, n + 1, transform)

\* the class cap, then the instance cap, then the fraction: the returned
\* templates are of the labels of selected, of each no more than the
\* instance cap lets through, and as many as the fraction leaves of the sum
CapsInOrder(selected) ==
    LET transform == arg.transform
        total == TakenFrom(arg.templates, selected, 1, transform)
    IN /\ Len(selected) <= transform.classes
       /\ Len(ret) = IF transform.fraction.num < transform.fraction.den
                     THEN (total * transform.fraction.num) \div transform.fraction.den
                     ELSE total
       /\ \A k \in 1..Len(ret) : \E p \in 1..Len(selected) : selected[p] = InputLabel(ret[k])
       /\ \A p \in 1..Len(selected) :
            Cardinality(Returned_(selected[p])) <= Taken(arg.templates, selected[p], transform)

\* the lists of selected labels Downsample may have drawn
Selections ==
    SelectedLabels(UniqueLabels(arg.templates, arg.transform.classes,
                                Abs(arg.transform.instances)), arg.transform.classes)

\* C28 as it stands: the caps are applied in the order class cap, instance
\* cap, fraction, and with relabel the labels of the returned templates are
\* exactly 0..K-1, K the number of classes returned.
C28_DenseLabels ==
    DownsampleDone =>
      /\ Capped(arg.transform) => \E selected \in Selections : CapsInOrder(selected)
      /\ arg.transform.relabel =>
           {ret[k].Label : k \in 1..Len(ret)} =
              0..(Cardinality({InputLabel(ret[k]) : k \in 1..Len(ret)}) - 1)

\* C28, amended: with some cap set, the caps are applied in the order class
\* cap, instance cap, fraction; with relabel the Label of a returned
\* template is the place, counted from 0, of its class among the K selected
\* ones, and the labels returned are all of 0..K-1 when no fraction is cut
\* off and each selected class has a template let through.
C28_CapsInOrderRelabelled ==
    (DownsampleDone /\ Capped(arg.transform)) =>
      \E selected \in Selections :
        /\ CapsInOrder(selected)
        /\ arg.transform.relabel =>
             /\ \A k \in 1..Len(ret) :
                  /\ ret[k].Label \in 0..(Len(selected) - 1)
                  /\ selected[ret[k].Label + 1] = InputLabel(ret[k])
             /\ (/\ arg.transform.fraction.num >= arg.transform.fraction.den
                 /\ \A p \in 1..Len(selected) :
                      Taken(arg.templates, selected[p], arg.transform) > 0) =>
                  {ret[k].Label : k \in 1..Len(ret)} = 0..(Len(selected) - 1)

C28_Witness ==
    /\ DownsampleDone /\ arg.transform.relabel
    /\ arg.transform.classes = 2 /\ arg.transform.instances = 1
    /\ arg.transform.fraction.num = 1 /\ arg.transform.fraction.den = 1
    /\ Len(arg.templates) = 3
    /\ \A j \in 1..3 : arg.templates[j].Label = j /\ ~arg.templates[j].FTE
    /\ Len(ret) = 2 /\ ret[1].Label = 0 /\ ret[1].id = 3 /\ ret[2].Label = 1 /\ ret[2].id = 1

\* C22 as it stands: a processing stage whose getItem returned NULL has
\* marked its output buffer finished when it leaves run().
C22_WorkerMarksOutput ==
    [][\A s \in 1..MaxStages :
          (s <= nStages /\ pc[s] = "stop" /\ pc'[s] = "idle") =>
             sharedBuffers'[s].no_input]_vars

\* C22, amended: a processing stage whose getItem returned NULL marks only
\* itself stopped and leaves its output buffer alone; the buffer is marked
\* finished by the caller of projectUpdate, and only once the stage that
\* writes into it has stopped; and the stage that reads it sees the end too
\* in the end.
C22_CallerMarksOutput ==
    /\ [][\A s \in 1..MaxStages :
            s <= nStages =>
              /\ (pc[s] = "stop" /\ pc'[s] = "idle") =>
                    (stopped'[s] /\ sharedBuffers' = sharedBuffers)
              /\ (started /\ ~sharedBuffers[s].no_input /\ sharedBuffers'[s].no_input) =>
                    (pc[Main] = "drain" /\ mainI = s /\ stopped[s] /\ pc[s] = "idle")]_vars
    /\ \A s \in 1..MaxStages :
         (s <= nStages /\ pc[s] = "stop") ~> (s <= nStages /\ pc[s + 1] = "stop")

C22_Witness ==
    /\ nStages >= 1 /\ started /\ emitted >= 1
    /\ pc[1] = "idle" /\ stopped[1] /\ ~sharedBuffers[1].no_input
    /\ pc[Main] = "waitStop" /\ mainI = 0 /\ pc[Coll] = "get_wait"

\* the source has no further frame to give
Exhausted == ~GetNext(source)[1]

\* C23: buffer 0 is marked finished only with the source exhausted and the
\* read stage stopped, buffer i > 0 only with stage i, which writes into it,
\* stopped, and always by the caller in its drain loop at that buffer; no
\* buffer that is marked finished ever receives an item; the caller leaves
\* waitStop only on a stopped stage, goes from stage to stage in the order
\* of the pipeline, with every earlier stage stopped, and returns after the
\* collection stage, the last one.
C23_DrainInOrder ==
    /\ [](pc[Main] \in {"drain", "waitStop"} =>
            /\ stopped[Main] /\ Exhausted
            /\ \A s \in 1..(MaxStages + 1) : s <= mainI => stopped[s])
    /\ [][/\ \A i \in 0..MaxStages :
               i <= nStages =>
                 /\ (~sharedBuffers[i].no_input /\ sharedBuffers'[i].no_input) =>
                       /\ pc[Main] = "drain" /\ mainI = i /\ stopped[i]
                       /\ i = 0 => Exhausted
                 /\ sharedBuffers[i].no_input =>
                       Len(DB_Items(sharedBuffers'[i])) <= Len(DB_Items(sharedBuffers[i]))
          /\ (pc[Main] = "waitStop" /\ pc'[Main] # "waitStop") =>
                /\ stopped[mainI + 1]
                /\ IF mainI = nStages THEN pc'[Main] = "idle"
                   ELSE pc'[Main] = "drain" /\ mainI' = mainI + 1]_vars

C23_Witness ==
    /\ nStages = MaxStages /\ pc[Main] = "waitStop" /\ mainI = nStages
    /\ emitted = MaxSrc /\ ~stopped[Coll] /\ pc[Coll] = "collect"
    /\ \A i \in 0..nStages : sharedBuffers[i].no_input

\* the phase of the run the caller of projectUpdate is in: 0 between the
\* calls (Idle, and Collected after a run), 1 with the source open and the
\* buffers and stages being started (Opened), 2 in readStage.run() (Running),
\* 3 in the drain loop (Draining)
Phase ==
    CASE pc[Main] = "idle" -> 0
      [] pc[Main] \in {"startInput", "start"} -> 1
      [] pc[Main] \in {"drain", "waitStop"} -> 3
      [] OTHER -> 2

\* processingThreads.start(stage s) was called in this run
StageStarted(s) ==
    inRun[s] = 1 \/ \E k \in 1..Len(threadPool.queue) : threadPool.queue[k] = s

\* C24: a run goes from phase to phase in the order Idle, Opened, Running,
\* Draining, Collected only; no stage is started before startInput was
\* called on every buffer; a stage inside run() was marked started and is
\* not marked stopped; nothing is read from the source before every stage
\* and the collection stage were started; and the output is taken from the
\* collection stage, after that stage has stopped.
C24_RunPhases ==
    /\ [](/\ pc[Main] = "startInput" => \A s \in Workers : pc[s] = "idle"
          /\ pc[Main] = "start" =>
               /\ \A i \in 0..nStages : ~sharedBuffers[i].no_input
               /\ \A s \in Workers : s >= mainI => pc[s] = "idle"
          /\ \A s \in Workers : pc[s] # "idle" => ~stopped[s]
          /\ Phase = 1 => (emitted = 0 /\ DB_Items(sharedBuffers[0]) = <<>>)
          /\ Phase = 2 => \A s \in Workers : StageStarted(s) /\ ~stopped[s])
    /\ [][/\ Phase' \in {Phase, (Phase + 1) % 4}
          /\ (Phase = 0 /\ Phase' = 1) => IsOpen(source')
          /\ (Phase = 3 /\ Phase' = 0) =>
                /\ stopped[Coll] /\ pc[Coll] = "idle"
                /\ dst' = collectedOutput
          /\ (dst' # dst) => (Phase = 0 \/ (Phase = 3 /\ Phase' = 0))]_vars

C24_Witness ==
    /\ runsLeft = 0 /\ pc[Main] = "idle" /\ started /\ nStages = MaxStages
    /\ Len(dst) >= 2 /\ dst[Len(dst)].file = 1 /\ dst[1].file = 2

\* the frames the source has emitted and the collection stage has not yet
\* returned: those outside the pool but for the frame of a failed read
InFlight ==
    SelectSeq(Outside, LAMBDA f : ~(pc[Main] = "unget" /\ f = cur[Main]))

\* C25: in every run the frames the source emits carry the sequence numbers
\* 0, 1, 2, ... in the order of their emission, from a template in memory
\* and from a video alike, the count starting anew at each open; the
\* sequence number of a frame is written in getFrame of the calling thread
\* only, so that a frame in a buffer or in a stage, the collection stage
\* too, carries the number the source gave it, which is the index of its
\* data in the input.
C25_SequenceNumbers ==
    /\ [](/\ \A i \in 1..Len(InFlight) :
               /\ frames[InFlight[i]].sequenceNumber \in 0..(emitted - 1)
               /\ Len(frames[InFlight[i]].data) = 1
               /\ frames[InFlight[i]].data[1].idx = frames[InFlight[i]].sequenceNumber
               /\ \A j \in 1..Len(InFlight) :
                    frames[InFlight[i]].sequenceNumber = frames[InFlight[j]].sequenceNumber
                      => i = j
          /\ pc[Coll] = "collect" =>
               frames[cur[Coll]].sequenceNumber = Len(ThisRun(collectedOutput)))
    /\ [][/\ emitted' = emitted + 1 =>
               (cur'[Main] # NULL /\ frames'[cur'[Main]].sequenceNumber = emitted)
          /\ (pc[Main] = "idle" /\ pc'[Main] = "startInput") =>
               (source'.next_sequence = 0 /\ emitted' = 0)
          /\ \A f \in DOMAIN frames :
               frames'[f].sequenceNumber # frames[f].sequenceNumber =>
                  (pc[Main] \in {"get_read", "get_write", "get_wait"} /\ cur'[Main] = f)]_vars

C25_Witness ==
    /\ runsLeft = 0 /\ source.actualSource = "Template"
    /\ Len(collectedOutput) = MaxSrc - 1 /\ collectedOutput[1].file = 2
    /\ pc[Coll] = "collect" /\ frames[cur[Coll]].sequenceNumber = 0
    /\ frames[cur[Coll]].data[1].file = 1 /\ frames[cur[Coll]].data[1].by = nStages

C30_Quiescent ==
    Returned =>
      /\ \A i \in 0..nStages :
           DB_Items(sharedBuffers[i]) = <<>> /\ sharedBuffers[i].no_input
      /\ \A s \in AllThreads : stopped[s] /\ pc[s] = "idle" /\ cur[s] = NULL
      /\ \A f \in DOMAIN frames : Count(DB_Items(allFrames), f) = 1

\* C21: load on the tree built from the same text, given the stream store
\* wrote on the trained tree, reads every byte of it and no more, and leaves
\* the tree equal to the trained one: each stored property and each child
\* in its place, an Independent with as many transforms as were stored,
\* each as it was.
C21_StoreLoadRoundTrip ==
    (fn = "store" /\ lpc = "done") =>
       /\ ret.left = <<>>
       /\ ret.loaded = arg.tree
       /\ Store(ret.loaded) = ret.stream

C21_Witness ==
    /\ fn = "store" /\ lpc = "done" /\ arg.tree.className = "Pipe"
    /\ Len(ret.loaded.properties[1].value[2].properties[1].value) = 2
    /\ ret.loaded.properties[1].value[2].properties[1].value[2] = Leaf(300, TRUE, <<65, 66>>)
    /\ ret.loaded.properties[1].value[2].properties[1].value[1] = Leaf(0, FALSE, <<>>)
    /\ ret.loaded.properties[1].value[1] = Leaf(0, FALSE, <<>>)
    /\ Len(ret.stream) = 9 + 4 + 9 + 13

=============================================================================
